---- MODULE Spec2Model ----
(***************************************************************************)
(* A model of the duplicate-file tools sync.py, sync_cloud_smart.py and    *)
(* sync_cache_smart.py: the path guard, the identity function, the         *)
(* threaded indexer (Comparator of sync_cloud_smart.py, thread by thread), *)
(* the classifier, and the App classes of sync.py and sync_cache_smart.py  *)
(* with their scans, their cache file and their destructive handlers.      *)
(*                                                                         *)
(* Paths are sequences of components; an absolute path starts with "/".    *)
(* The empty sequence stands for Python's "" and None (both falsy).        *)
(***************************************************************************)
EXTENDS Integers, Sequences, FiniteSets, Bags, TLC

VARIABLES
    \* ---- the file system
    disk,         \* existing regular files: path -> content
    unreadable,   \* paths whose os.stat / open raises
    \* ---- the App objects (UI thread) and the Comparator threads they start
    master_path,  \* self.master_path
    target_path,  \* self.target_path
    btn_scan,     \* state of the scan button
    threads,      \* the bag of started Comparator threads that are still running
    ui_queue,     \* results queued with root.after, not yet handled
    scan_results, \* sync.py: self.scan_results
    \* ---- the App of sync_cache_smart.py
    mode,            \* self.mode: 1 two folders, 2 single folder
    last_master_idx, \* self.last_master_idx
    last_target_idx, \* self.last_target_idx
    cross_dupes,     \* self.cross_dupes
    internal_dupes,  \* self.internal_dupes
    tree_internal,   \* the paths shown in the rows of self.tree_internal
    cache_file,      \* the cache file save_cache wrote, and the numbers of
                     \* saves and loads so far
    idx_root,        \* the protected root of the scan that built the indexes
    classified,      \* what the last classification ran on
    aliased,         \* the groups of internal_dupes are the bucket lists of
                     \* last_target_idx (the same list objects)
    \* ---- observation of the App (history, not program state)
    calls,        \* the primitive calls of the last handler, in order
    op,           \* name of the last handler
    report,       \* [count, skipped] of the last batch
    batches,      \* number of destructive batches so far
    earlier,      \* sync.py: the candidate list of the last batch and the
                  \* candidates a batch on that list has moved or discarded
    dialog,       \* the message box the last handler showed, "" if none
    \* ---- one Comparator thread (sync_cloud_smart.py), thread level
    cmp,          \* [master, target, use_hash]: self.master, self.target, self.use_hash
    stop_event,   \* self.stop_event
    pc,           \* position of the coordinator (Comparator.run)
    label,        \* label of the pass in progress: "Target" / "Master"
    all_files,    \* all_files of the pass in progress
    queue,        \* submitted tasks no worker has picked up yet
    inflight,     \* get_identifier calls in progress, one per busy worker
    done_q,       \* completed futures not yet yielded by as_completed
    i,            \* the enumerate() counter of the as_completed loop
    index,        \* the index being built by the pass in progress
    ret_idx,      \* value returned by the last process_folder_parallel
    target_idx,   \* run()'s local target_idx
    master_idx,   \* run()'s local master_idx
    progress,     \* the percent values passed to self.update_ui, in order
    alerts,       \* number of self.alert calls
    finished,     \* arguments of the self.finish calls, in order
    \* ---- observation of the Comparator (history, not program state)
    low_i,        \* value of i at the sample that read below the floor, or -1
    low_label,    \* label of the pass in which that sample was taken
    read_after_check, \* a file read happened after the low sample was taken
    flight_at_stop,   \* paths whose get_identifier was in progress when the flag was set
    late_reads,   \* paths read (os.stat or chunk) while the flag was set, in order
    listed,       \* labels of the passes whose os.walk ran
    verdict,      \* the last call of is_subpath: its arguments and its result
    io,           \* per pass and file: times opened, chunks and bytes f.read returned
    sampled       \* what the last free-space measurement did, "" before the first

fsVars  == <<disk, unreadable>>
uiVars  == <<master_path, target_path, btn_scan, threads, ui_queue>>
syncVars == <<scan_results, earlier>>
cacheVars == <<mode, last_master_idx, last_target_idx, cross_dupes,
               internal_dupes, tree_internal, cache_file, idx_root, classified,
               aliased>>
logVars == <<calls, op, report, batches, dialog>>
appVars == <<uiVars, syncVars, cacheVars, logVars>>
envVars == <<fsVars, appVars>>
cmpVars == <<cmp, stop_event, pc, label, all_files, queue, inflight, done_q, i,
             index, ret_idx, target_idx, master_idx, alerts, finished,
             progress>>
obsVars == <<low_i, low_label, read_after_check, flight_at_stop, late_reads, verdict, io, sampled, listed>>
idxVars == <<cmpVars, obsVars>>
vars    == <<fsVars, appVars, cmpVars, obsVars>>

(***************************************************************************)
(* Bounds of the model                                                     *)
(***************************************************************************)
\* size of the worker pool (self.max_threads is cpu_count + 2 in the source)
MaxThreads == 2
\* cadence of the free-space check; the source samples when i % 50 == 0.
\* The model keeps the modulus and scales it so that a second sampling
\* point is reached with the few files of the model's trees.
CheckEvery == 2
\* cadence of the progress notification; the source notifies when
\* completed % 50 == 0, scaled in the same way
ReportEvery == 2
MaxScans == 2      \* Comparator threads started and not yet handled
MaxBatches == 2    \* destructive batches in one run
MaxSuffix == 3     \* numeric suffixes a file name of the model can carry
MaxSaves == 1      \* times the cache file is written in one run
MaxCacheScans == 1 \* the same as MaxScans, for the App of sync_cache_smart.py
MaxLoads == 1      \* cache files loaded in one run
MaxCacheBatches == 1 \* the same as MaxBatches, for the App of sync_cache_smart.py
\* rows deleted one by one with delete_selected_internal in one run, the
\* batches before them counted in
MaxDeletes == 2

(***************************************************************************)
(* Program constants                                                       *)
(***************************************************************************)
FloorGB    == 5        \* free_gb < 5.0
ComparingPct == 90     \* self.update_ui("Comparing Logic...", 90)
ChunkSize  == 65536    \* f.read(65536)
AssumedGB  == 100      \* get_free_space_gb's value when the measurement fails

(***************************************************************************)
(* Paths and the file universe                                             *)
(***************************************************************************)
NoPath  == <<>>
None    == <<>>
Cwd     == <<"/", "home">>
DirP    == <<"/", "P">>
DirC    == <<"/", "C">>
DirCa   == <<"/", "C", "a">>
P_doc   == <<"/", "P", "doc.txt">>
C_a_doc == <<"/", "C", "a", "doc.txt">>
C_b_only == <<"/", "C", "b", "only.txt">>
C_c1_dup == <<"/", "C", "c1", "dup.bin">>
C_c2_dup == <<"/", "C", "c2", "dup.bin">>

\* the tree of the end-to-end scenario
ScenarioDisk ==
    (P_doc :> "X") @@ (C_a_doc :> "X") @@ (C_b_only :> "Y")
        @@ (C_c1_dup :> "Z") @@ (C_c2_dup :> "Z")


basename(p) == p[Len(p)]
dirname(p)  == SubSeq(p, 1, Len(p) - 1)

\* os.path.abspath of a normalised path: "" is the working directory
abspath(p) == IF p = NoPath THEN Cwd ELSE p

Min(a, b) == IF a < b THEN a ELSE b

\* os.path.commonpath([a, b]) of two absolute paths: their longest common
\* prefix of whole components
commonpath(a, b) ==
    LET same == {n \in 0..Min(Len(a), Len(b)) :
                    \A k \in 1..n : a[k] = b[k]}
        n == CHOOSE m \in same : \A o \in same : o <= m
    IN  SubSeq(a, 1, n)

\* the path string of a path: "/" and the components joined by "/"
RECURSIVE join(_)
join(p) ==
    IF p = <<>> THEN ""
    ELSE IF Len(p) = 1 THEN p[1]
    ELSE IF Len(p) = 2 THEN p[1] \o p[2]
    ELSE join(SubSeq(p, 1, Len(p) - 1)) \o "/" \o p[Len(p)]

\* a containment test on the path strings: path.startswith(parent)
is_subpath_startswith(path, parent) ==
    IF parent = NoPath THEN FALSE
    ELSE LET a == join(abspath(path))
             r == join(abspath(parent))
         IN  Len(r) <= Len(a) /\ SubSeq(a, 1, Len(r)) = r

\* is_subpath of sync_cloud_smart.py and sync_cache_smart.py
is_subpath(path, parent) ==
    IF parent = NoPath THEN FALSE
    ELSE commonpath(abspath(parent), abspath(path)) = abspath(parent)

\* is_subpath of sync.py: no test of an empty parent
is_subpath_sync(path, parent) ==
    commonpath(abspath(parent), abspath(path)) = abspath(parent)

\* no call of is_subpath made yet
NoVerdict == [fn |-> "", path |-> NoPath, parent |-> NoPath, inside |-> FALSE]

\* the orders in which the regular files below folder can be listed
Listings(folder, d) ==
    LET S == {p \in DOMAIN d : is_subpath_sync(p, folder)}
        n == Cardinality(S)
    IN  {s \in [1..n -> S] : \A x \in S : \E k \in 1..n : s[k] = x}

\* os.walk(folder): the regular files below folder. The listing order is
\* the file system's, the same for an unmodified tree; the model fixes one.
walk(folder, d) == CHOOSE s \in Listings(folder, d) : TRUE

(***************************************************************************)
(* Identity function                                                       *)
(***************************************************************************)
\* st_size of a file with the given content
st_size(content) == Len(content)

\* number of non-empty chunks f.read(65536) returns for the content
nchunks(content) == (st_size(content) + ChunkSize - 1) \div ChunkSize

\* hashlib.md5(...).hexdigest(): equal exactly for equal byte content
md5(content) == "md5:" \o content

\* a key of exact mode that took the file's name for its digest
exact_key_named(path, content) == <<"exact", basename(path), st_size(content)>>

\* a key of fast mode that left the size out
fast_key_nosize(path, content) == <<"fast", basename(path), 0>>

\* the key of fast mode, (basename, size), and of exact mode, (size, digest).
\* Python never finds a key of one mode equal to a key of the other (str
\* against int); the first component keeps them apart here.
fast_key(path, content)  == <<"fast", basename(path), st_size(content)>>
exact_key(path, content) == <<"exact", md5(content), st_size(content)>>

(***************************************************************************)
(* Index: a dict in insertion order, as a sequence of [ident, paths]       *)
(***************************************************************************)
EmptyIndex == <<>>

HasIdent(idx, ident) == \E j \in 1..Len(idx) : idx[j].ident = ident

PathsOf(idx, ident) ==
    idx[CHOOSE j \in 1..Len(idx) : idx[j].ident = ident].paths

Idents(idx) == {idx[j].ident : j \in 1..Len(idx)}

\* a fold that assigns the bucket instead of appending to it
fold_overwrite(idx, path, ident) ==
    IF ident = None THEN idx
    ELSE IF HasIdent(idx, ident)
         THEN [j \in 1..Len(idx) |->
                  IF idx[j].ident = ident
                  THEN [idx[j] EXCEPT !.paths = <<path>>]
                  ELSE idx[j]]
         ELSE Append(idx, [ident |-> ident, paths |-> <<path>>])

\* a fold without the "if ident" test: a failed identification gets a bucket
fold_unfiltered(idx, path, ident) ==
    IF HasIdent(idx, ident)
    THEN [j \in 1..Len(idx) |->
             IF idx[j].ident = ident
             THEN [idx[j] EXCEPT !.paths = Append(@, path)]
             ELSE idx[j]]
    ELSE Append(idx, [ident |-> ident, paths |-> <<path>>])

\* if ident: if ident not in index: index[ident] = []; index[ident].append(path)
fold(idx, path, ident) ==
    IF ident = None THEN idx
    ELSE IF HasIdent(idx, ident)
         THEN [j \in 1..Len(idx) |->
                  IF idx[j].ident = ident
                  THEN [idx[j] EXCEPT !.paths = Append(@, path)]
                  ELSE idx[j]]
         ELSE Append(idx, [ident |-> ident, paths |-> <<path>>])

(***************************************************************************)
(* Classifier                                                              *)
(***************************************************************************)
\* records whose representative is the last path of the protected bucket
cross_duplicates_lastrep(two_folder, m_idx, t_idx) ==
    LET hit(e) == two_folder /\ HasIdent(m_idx, e.ident)
        hits == SelectSeq(t_idx, hit)
    IN  [j \in 1..Len(hits) |->
            [master_file  |-> PathsOf(m_idx, hits[j].ident)
                                  [Len(PathsOf(m_idx, hits[j].ident))],
             target_files |-> hits[j].paths]]

\* the cross-duplicate records: one per key of the target index that the
\* condition two_folder admits and the master index holds
cross_duplicates(two_folder, m_idx, t_idx) ==
    LET hit(e) == two_folder /\ HasIdent(m_idx, e.ident)
        hits == SelectSeq(t_idx, hit)
    IN  [j \in 1..Len(hits) |->
            [master_file  |-> PathsOf(m_idx, hits[j].ident)[1],
             target_files |-> hits[j].paths]]

\* a grouping with the test of the protected index inverted: the buckets
\* that have a match are grouped
internal_duplicates_matched(two_folder, m_idx, t_idx) ==
    LET grp(e) == (two_folder /\ HasIdent(m_idx, e.ident)) /\ Len(e.paths) > 1
        grps == SelectSeq(t_idx, grp)
    IN  [j \in 1..Len(grps) |-> grps[j].paths]

\* a grouping that also emits the keys with a single path
internal_duplicates_any(two_folder, m_idx, t_idx) ==
    LET grp(e) == ~(two_folder /\ HasIdent(m_idx, e.ident)) /\ Len(e.paths) > 0
        grps == SelectSeq(t_idx, grp)
    IN  [j \in 1..Len(grps) |-> grps[j].paths]

\* the classification with an if in place of the else: a bucket of a cross
\* record is grouped as well
internal_duplicates_overlap(two_folder, m_idx, t_idx) ==
    LET grp(e) == Len(e.paths) > 1
        grps == SelectSeq(t_idx, grp)
    IN  [j \in 1..Len(grps) |-> grps[j].paths]

\* the internal-duplicate groups: the other keys with more than one path
internal_duplicates(two_folder, m_idx, t_idx) ==
    LET grp(e) == ~(two_folder /\ HasIdent(m_idx, e.ident)) /\ Len(e.paths) > 1
        grps == SelectSeq(t_idx, grp)
    IN  [j \in 1..Len(grps) |-> grps[j].paths]

(***************************************************************************)
(* The Comparator thread of sync_cloud_smart.py, thread by thread          *)
(***************************************************************************)
\* what shutil.disk_usage(folder) can do at a sample: give a value below
\* the floor or not below it, raise, or find the folder gone
Measurements ==
    {[kind |-> "value", gb |-> FloorGB - 1], [kind |-> "value", gb |-> FloorGB],
     [kind |-> "raises", gb |-> 0], [kind |-> "missing", gb |-> 0]}

\* a get_free_space_gb that reports a failed measurement as no space
get_free_space_gb_raw(m) == m.gb

\* get_free_space_gb: the measured value; 100 when the folder does not
\* exist (tested first in sync_cache_smart.py) or disk_usage raises
get_free_space_gb(m) == IF m.kind = "value" THEN m.gb ELSE AssumedGB

\* the values get_free_space_gb can return: a measurement, or AssumedGB
\* when shutil.disk_usage raises
FreeReadings == {get_free_space_gb(m) : m \in Measurements}

\* prepare_path of a path os.walk built from an absolute folder: normpath
\* and abspath leave it as it is
prepare_path(p) == abspath(p)

\* (completed/total)*100, rounded down to a whole percent
percent(completed, total) == (completed * 100) \div total

IdleObs == /\ UNCHANGED <<low_i, low_label, flight_at_stop, listed, verdict, sampled>>

\* history: nothing opened or read yet
ZeroIo == [opens |-> 0, chunks |-> 0, bytes |-> 0]

\* the number of bytes f.read(65536) returns when left chunks remain
chunk_len(content, left) ==
    IF left = 1
    THEN st_size(content) - (nchunks(content) - 1) * ChunkSize
    ELSE ChunkSize

\* history: open(filepath, 'rb') in the current pass
NoteOpen(path) ==
    [io EXCEPT ![<<label, path>>] =
        [opens |-> @.opens + 1, chunks |-> @.chunks, bytes |-> @.bytes]]

\* history: f.read(65536) returned data in the current pass
NoteChunk(path, left) ==
    [io EXCEPT ![<<label, path>>] =
        [opens |-> @.opens, chunks |-> @.chunks + 1,
         bytes |-> @.bytes + chunk_len(disk[path], left)]]

\* history: a worker performed os.stat or f.read on path
NoteRead(path) ==
    /\ read_after_check' = (read_after_check \/ low_i >= 0)
    /\ late_reads' = IF stop_event THEN Append(late_reads, path) ELSE late_reads

\* a future completes with (path, ident): as_completed will yield it
Complete(t, ident) ==
    /\ inflight' = inflight \ {t}
    /\ done_q' = Append(done_q, <<t.path, ident>>)

\* a get_identifier that does not test the flag before os.stat
gi_enter_noflag ==
    /\ pc \in {"pool", "low", "shutdown"}
    /\ queue # <<>>
    /\ Cardinality(inflight) < MaxThreads
    /\ queue' = Tail(queue)
    /\ inflight' = inflight \cup {[path |-> Head(queue), at |-> "stat", left |-> 0]}
    /\ UNCHANGED <<envVars, cmp, stop_event, pc, label, all_files, done_q, i, index,
                   ret_idx, target_idx, master_idx, alerts, progress, finished, obsVars>>

\* get_identifier, line 78: a free worker picks up the next submitted task
\* and tests the flag before touching the file
gi_enter ==
    /\ pc \in {"pool", "low", "shutdown"}
    /\ queue # <<>>
    /\ Cardinality(inflight) < MaxThreads
    /\ queue' = Tail(queue)
    /\ IF stop_event
       THEN /\ done_q' = Append(done_q, <<Head(queue), None>>)
            /\ UNCHANGED inflight
       ELSE /\ inflight' = inflight \cup {[path |-> Head(queue), at |-> "stat", left |-> 0]}
            /\ UNCHANGED done_q
    /\ UNCHANGED <<envVars, cmp, stop_event, pc, label, all_files, i, index, ret_idx,
                   target_idx, master_idx, alerts, progress, finished, obsVars>>

\* a get_identifier whose failed os.stat cancels the scan
gi_stat_abort ==
    \E t \in inflight :
        /\ t.at = "stat"
        /\ NoteRead(t.path)
        /\ IF t.path \notin DOMAIN disk \/ t.path \in unreadable
           THEN /\ Complete(t, None)
                /\ stop_event' = TRUE
           ELSE /\ UNCHANGED stop_event
                /\ IF ~cmp.use_hash
                   THEN Complete(t, fast_key(t.path, disk[t.path]))
                   ELSE /\ inflight' = (inflight \ {t}) \cup
                               {[t EXCEPT !.at = "check", !.left = nchunks(disk[t.path])]}
                        /\ UNCHANGED done_q
        /\ io' = IF t.path \in DOMAIN disk /\ t.path \notin unreadable /\ cmp.use_hash
                 THEN NoteOpen(t.path)
                 ELSE io
        /\ UNCHANGED <<envVars, cmp, pc, label, all_files, queue, i, index,
                       ret_idx, target_idx, master_idx, alerts, progress, finished>>
        /\ IdleObs

\* get_identifier, lines 80-87: os.stat, the fast key, or the file is opened
gi_stat ==
    \E t \in inflight :
        /\ t.at = "stat"
        /\ NoteRead(t.path)
        /\ IF t.path \notin DOMAIN disk \/ t.path \in unreadable
           THEN Complete(t, None)
           ELSE IF ~cmp.use_hash
                THEN Complete(t, fast_key(t.path, disk[t.path]))
                ELSE /\ inflight' = (inflight \ {t}) \cup
                            {[t EXCEPT !.at = "check", !.left = nchunks(disk[t.path])]}
                     /\ UNCHANGED done_q
        /\ io' = IF t.path \in DOMAIN disk /\ t.path \notin unreadable /\ cmp.use_hash
                 THEN NoteOpen(t.path)
                 ELSE io
        /\ UNCHANGED <<envVars, cmp, stop_event, pc, label, all_files, queue, i, index,
                       ret_idx, target_idx, master_idx, alerts, progress, finished>>
        /\ IdleObs

\* get_identifier, line 89: the flag is tested before each chunk
gi_check ==
    \E t \in inflight :
        /\ t.at = "check"
        /\ IF stop_event
           THEN Complete(t, None)
           ELSE /\ inflight' = (inflight \ {t}) \cup {[t EXCEPT !.at = "read"]}
                /\ UNCHANGED done_q
        /\ UNCHANGED <<envVars, cmp, stop_event, pc, label, all_files, queue, i, index,
                       ret_idx, target_idx, master_idx, alerts, progress, finished, obsVars>>

\* a read loop that returns the key after the first chunk
gi_read_once ==
    \E t \in inflight :
        /\ t.at = "read"
        /\ NoteRead(t.path)
        /\ Complete(t, exact_key(t.path, disk[t.path]))
        /\ io' = IF t.left > 0 THEN NoteChunk(t.path, t.left) ELSE io
        /\ UNCHANGED <<envVars, cmp, stop_event, pc, label, all_files, queue, i, index,
                       ret_idx, target_idx, master_idx, alerts, progress, finished>>
        /\ IdleObs

\* get_identifier, lines 90-93: one f.read(65536); an empty read ends the loop
gi_read ==
    \E t \in inflight :
        /\ t.at = "read"
        /\ NoteRead(t.path)
        /\ IF t.left > 0
           THEN /\ inflight' = (inflight \ {t}) \cup
                        {[t EXCEPT !.at = "check", !.left = t.left - 1]}
                /\ UNCHANGED done_q
           ELSE Complete(t, exact_key(t.path, disk[t.path]))
        /\ io' = IF t.left > 0 THEN NoteChunk(t.path, t.left) ELSE io
        /\ UNCHANGED <<envVars, cmp, stop_event, pc, label, all_files, queue, i, index,
                       ret_idx, target_idx, master_idx, alerts, progress, finished>>
        /\ IdleObs

\* process_folder_parallel, lines 98-119: the flag test, the listing, the
\* empty-tree return, the submission of every file to the pool
pfp_enter(folder, lab) ==
    /\ label' = lab
    /\ IF stop_event
       THEN /\ pc' = "ret"
            /\ ret_idx' = EmptyIndex
            /\ UNCHANGED <<all_files, queue, i, index, done_q, listed, progress>>
       ELSE LET files == walk(folder, disk)
            IN  /\ listed' = listed \cup {lab}
                /\ IF files = <<>>
                   THEN /\ pc' = "ret"
                        /\ ret_idx' = EmptyIndex
                        /\ progress' = Append(progress, 0)
                        /\ UNCHANGED <<all_files, queue, i, index, done_q>>
                   ELSE /\ pc' = "pool"
                        /\ progress' = Append(Append(progress, 0), 0)
                        /\ all_files' = [j \in 1..Len(files) |-> prepare_path(files[j])]
                        /\ queue' = [j \in 1..Len(files) |-> prepare_path(files[j])]
                        /\ i' = 0
                        /\ index' = EmptyIndex
                        /\ done_q' = <<>>
                        /\ UNCHANGED ret_idx

\* Comparator.run, line 145: the target pass starts
run_begin ==
    /\ pc = "run"
    /\ pfp_enter(cmp.target, "Target")
    /\ UNCHANGED <<envVars, cmp, stop_event, inflight, target_idx, master_idx, alerts,
                   finished, low_i, low_label, read_after_check, flight_at_stop,
                   late_reads, verdict, io, sampled>>

\* process_folder_parallel, lines 121-139: as_completed yields the next
\* completed future; the flag test, the free-space sample every CheckEvery
\* futures, the fold of the result
pfp_step(m) ==
    /\ pc = "pool"
    /\ done_q # <<>>
    /\ done_q' = Tail(done_q)
    /\ IF stop_event
       THEN /\ pc' = "shutdown"
            /\ ret_idx' = index
            /\ UNCHANGED <<i, index, low_i, low_label, progress, sampled>>
       ELSE LET free == IF i % CheckEvery = 0 THEN get_free_space_gb(m)
                        ELSE AssumedGB
            IN
              /\ sampled' = IF i % CheckEvery = 0 THEN m.kind ELSE sampled
              /\ IF free < FloorGB
                 THEN /\ pc' = "low"
                      /\ low_i' = i
                      /\ low_label' = label
                      /\ UNCHANGED <<i, index, ret_idx, progress>>
                 ELSE /\ index' = fold(index, Head(done_q)[1], Head(done_q)[2])
                      /\ i' = i + 1
                      /\ progress' = IF (i + 1) % ReportEvery = 0
                                     THEN Append(progress, percent(i + 1, Len(all_files)))
                                     ELSE progress
                      /\ UNCHANGED <<pc, ret_idx, low_i, low_label>>
    /\ UNCHANGED <<envVars, cmp, stop_event, label, all_files, queue, inflight,
                   target_idx, master_idx, alerts, finished, read_after_check,
                   flight_at_stop, late_reads, verdict, io, listed>>

pfp_next == \E m \in Measurements : pfp_step(m)

\* a cancellation that raises the alert and returns {} but leaves the flag
pfp_cancel_noflag ==
    /\ pc = "low"
    /\ alerts' = alerts + 1
    /\ ret_idx' = EmptyIndex
    /\ pc' = "shutdown"
    /\ flight_at_stop' = {t.path : t \in inflight}
    /\ UNCHANGED <<progress, envVars, cmp, stop_event, label, all_files, queue, inflight, done_q,
                   i, index, target_idx, master_idx, finished, low_i, low_label,
                   read_after_check, late_reads, verdict, io, sampled, listed>>

\* process_folder_parallel, lines 128-130: the flag is set, the alert is
\* raised, and return {} leaves the with block
pfp_cancel ==
    /\ pc = "low"
    /\ stop_event' = TRUE
    /\ alerts' = alerts + 1
    /\ ret_idx' = EmptyIndex
    /\ pc' = "shutdown"
    /\ flight_at_stop' = {t.path : t \in inflight}
    /\ UNCHANGED <<progress, envVars, cmp, label, all_files, queue, inflight, done_q, i, index,
                   target_idx, master_idx, finished, low_i, low_label,
                   read_after_check, late_reads, verdict, io, sampled, listed>>

\* a shutdown that raises the alert once more when the pool has drained
pfp_shutdown_alert ==
    /\ pc = "shutdown"
    /\ queue = <<>>
    /\ inflight = {}
    /\ pc' = "ret"
    /\ done_q' = <<>>
    /\ alerts' = alerts + 1
    /\ UNCHANGED <<progress, envVars, cmp, stop_event, label, all_files, queue, inflight, i, index,
                   ret_idx, target_idx, master_idx, finished, obsVars>>

\* the with block's exit after a return inside it: executor.shutdown(wait=True)
\* returns once every submitted task has run
pfp_shutdown ==
    /\ pc = "shutdown"
    /\ queue = <<>>
    /\ inflight = {}
    /\ pc' = "ret"
    /\ done_q' = <<>>
    /\ UNCHANGED <<envVars, cmp, stop_event, label, all_files, queue, inflight, i, index,
                   ret_idx, target_idx, master_idx, alerts, progress, finished, obsVars>>

\* process_folder_parallel, line 141: every future was yielded; return index
pfp_return ==
    /\ pc = "pool"
    /\ i = Len(all_files)
    /\ pc' = "ret"
    /\ ret_idx' = index
    /\ UNCHANGED <<envVars, cmp, stop_event, label, all_files, queue, inflight, done_q,
                   i, index, target_idx, master_idx, alerts, progress, finished, obsVars>>

\* Comparator.run, lines 154-169: the classification and the finish callback
run_finish(m_idx, t_idx) ==
    /\ pc' = "done"
    /\ progress' = Append(progress, ComparingPct)
    /\ finished' = Append(finished,
            [cross    |-> cross_duplicates(cmp.master # NoPath, m_idx, t_idx),
             internal |-> internal_duplicates(cmp.master # NoPath, m_idx, t_idx)])

\* a run() without the flag test after the target pass
run_after_target_nocheck ==
    /\ pc = "ret"
    /\ label = "Target"
    /\ target_idx' = ret_idx
    /\ IF cmp.master # NoPath
       THEN /\ pfp_enter(cmp.master, "Master")
            /\ UNCHANGED <<master_idx, finished>>
       ELSE /\ run_finish(EmptyIndex, ret_idx)
            /\ master_idx' = EmptyIndex
            /\ UNCHANGED <<label, all_files, queue, i, index, done_q, ret_idx, listed>>
    /\ UNCHANGED <<envVars, cmp, stop_event, inflight, alerts, low_i, low_label,
                   read_after_check, flight_at_stop, late_reads, verdict, io, sampled>>

\* Comparator.run, lines 145-152, after the target pass returned
run_after_target ==
    /\ pc = "ret"
    /\ label = "Target"
    /\ target_idx' = ret_idx
    /\ IF stop_event
       THEN /\ pc' = "done"
            /\ UNCHANGED <<label, all_files, queue, i, index, done_q, ret_idx,
                           master_idx, finished, listed, progress>>
       ELSE IF cmp.master # NoPath
            THEN /\ pfp_enter(cmp.master, "Master")
                 /\ UNCHANGED <<master_idx, finished>>
            ELSE /\ run_finish(EmptyIndex, ret_idx)
                 /\ master_idx' = EmptyIndex
                 /\ UNCHANGED <<label, all_files, queue, i, index, done_q, ret_idx,
                                listed>>
    /\ UNCHANGED <<envVars, cmp, stop_event, inflight, alerts, low_i, low_label,
                   read_after_check, flight_at_stop, late_reads, verdict, io, sampled>>

\* Comparator.run, lines 151-169, after the master pass returned
run_after_master ==
    /\ pc = "ret"
    /\ label = "Master"
    /\ master_idx' = ret_idx
    /\ IF stop_event
       THEN /\ pc' = "done"
            /\ UNCHANGED <<finished, progress>>
       ELSE run_finish(ret_idx, target_idx)
    /\ UNCHANGED <<envVars, cmp, stop_event, label, all_files, queue, inflight, done_q,
                   i, index, ret_idx, target_idx, alerts, obsVars>>

(***************************************************************************)
(* pickle: what save_cache writes and what load_cache can be given         *)
(***************************************************************************)
\* placeholders of the token fields a token does not use
NoIdent == <<"", "", 0>>

\* a value that is not a dict (a list), as a file not written by save_cache
\* can hold under the key 'target'; .items() raises AttributeError on it
NotADict == <<[ident |-> NoIdent, paths |-> <<>>]>>

\* pickle.dump of a dict of lists: every key in dict order, followed by the
\* items of its list in list order
RECURSIVE dump_index(_)
dump_index(idx) ==
    IF idx = <<>> THEN <<>>
    ELSE LET b == idx[Len(idx)]
         IN  dump_index(SubSeq(idx, 1, Len(idx) - 1))
             \o <<[tag |-> "key", ident |-> b.ident, path |-> NoPath]>>
             \o [k \in 1..Len(b.paths) |->
                   [tag |-> "item", ident |-> NoIdent, path |-> b.paths[k]]]

\* an unpickler that restores each list back to front
RECURSIVE load_index_reversed(_)
load_index_reversed(toks) ==
    IF toks = <<>> THEN <<>>
    ELSE LET idx == load_index_reversed(SubSeq(toks, 1, Len(toks) - 1))
             t   == toks[Len(toks)]
         IN  IF t.tag = "key"
             THEN Append(idx, [ident |-> t.ident, paths |-> <<>>])
             ELSE [idx EXCEPT ![Len(idx)].paths = <<t.path>> \o @]

\* pickle.load of that stream: a key opens a new list under it, an item is
\* appended to the list of the last key
RECURSIVE load_index(_)
load_index(toks) ==
    IF toks = <<>> THEN <<>>
    ELSE LET idx == load_index(SubSeq(toks, 1, Len(toks) - 1))
             t   == toks[Len(toks)]
         IN  IF t.tag = "key"
             THEN Append(idx, [ident |-> t.ident, paths |-> <<>>])
             ELSE [idx EXCEPT ![Len(idx)].paths = Append(@, t.path)]

\* a pickled value: its type and, for a dict, its stream
dump_value(v) ==
    IF v = NotADict THEN [type |-> "list", toks |-> <<>>]
    ELSE [type |-> "dict", toks |-> dump_index(v)]

load_value(pv) ==
    IF pv.type = "list" THEN NotADict ELSE load_index(pv.toks)

AllKeys == {"master", "target", "mode"}

\* pickle.dump(data, outfile) of save_cache; root is not in the file: it
\* records the protected root of the scan that built the indexes
pickle_dump(m_idx, t_idx, md, root) ==
    [kind |-> "dict", keys |-> AllKeys, master |-> dump_value(m_idx),
     target |-> dump_value(t_idx), mode |-> md, root |-> root]

\* files save_cache did not write: bytes that are no pickle, the pickle of a
\* list, of an empty dict, of a dict without 'mode', and of a dict whose
\* 'target' is a list
Foreign(kind, keys, ttype, md) ==
    [kind |-> kind, keys |-> keys, master |-> dump_value(EmptyIndex),
     target |-> [type |-> ttype, toks |-> <<>>], mode |-> md, root |-> NoPath]

Garbage    == Foreign("garbage", {}, "dict", 2)
PickledList == Foreign("object", {}, "dict", 2)
EmptyDict  == Foreign("dict", {}, "dict", 2)
NoModeDict == Foreign("dict", {"master", "target"}, "dict", 2)
BadTarget  == Foreign("dict", AllKeys, "list", 1)
ForeignFiles == {Garbage, PickledList, EmptyDict, NoModeDict, BadTarget}

\* a file of ForeignFiles has the expected structure
WellFormed(f) ==
    f.kind = "dict" /\ f.keys = AllKeys /\ f.master.type = "dict"
        /\ f.target.type = "dict"

\* data.get(key, default) of load_cache
get_index(f, key) == IF key \in f.keys THEN load_value(f[key]) ELSE EmptyIndex
get_mode(f) == IF "mode" \in f.keys THEN f.mode ELSE 2

\* no cache file written and none loaded yet
NoFile ==
    [present |-> FALSE, writes |-> 0, loads |-> 0, file |-> Garbage]

\* the App of sync_cache_smart.py after __init__
CacheIdle ==
    /\ mode = 2
    /\ last_master_idx = EmptyIndex
    /\ last_target_idx = EmptyIndex
    /\ cross_dupes = <<>>
    /\ internal_dupes = <<>>
    /\ tree_internal = {}
    /\ cache_file = NoFile
    /\ idx_root = NoPath
    /\ classified = [mode |-> 2, m_idx |-> EmptyIndex, t_idx |-> EmptyIndex,
                     root |-> NoPath]
    /\ aliased = FALSE

\* the Apps after __init__, no scan started
AppIdle ==
    /\ master_path = NoPath
    /\ target_path = NoPath
    /\ btn_scan = "normal"
    /\ threads = EmptyBag
    /\ ui_queue = <<>>
    /\ scan_results = <<>>
    /\ earlier = [cands |-> <<>>, done |-> {}, runs |-> 0]
    /\ calls = <<>>
    /\ op = ""
    /\ report = [count |-> 0, skipped |-> 0]
    /\ batches = 0
    /\ dialog = ""
    /\ CacheIdle

\* the Comparators App.start_scan can construct: a non-empty target, any master
Configs ==
    [master : {NoPath, DirP, DirC}, target : {DirC, DirCa}, use_hash : BOOLEAN]

InitIdx ==
    /\ disk = ScenarioDisk
    /\ unreadable \in {{}, {C_b_only}}
    /\ AppIdle
    /\ cmp \in Configs
    /\ stop_event = FALSE
    /\ pc = "run"
    /\ label = ""
    /\ all_files = <<>>
    /\ queue = <<>>
    /\ inflight = {}
    /\ done_q = <<>>
    /\ i = 0
    /\ index = EmptyIndex
    /\ ret_idx = EmptyIndex
    /\ target_idx = EmptyIndex
    /\ master_idx = EmptyIndex
    /\ alerts = 0
    /\ progress = <<>>
    /\ finished = <<>>
    /\ low_i = -1
    /\ low_label = ""
    /\ read_after_check = FALSE
    /\ flight_at_stop = {}
    /\ late_reads = <<>>
    /\ io = [k \in {"Target", "Master"} \X DOMAIN disk |-> ZeroIo]
    /\ verdict = NoVerdict
    /\ sampled = ""
    /\ listed = {}

NextIdx ==
    \/ run_begin
    \/ gi_enter
    \/ gi_stat
    \/ gi_check
    \/ gi_read
    \/ pfp_next
    \/ pfp_cancel
    \/ pfp_shutdown
    \/ pfp_return
    \/ run_after_target
    \/ run_after_master

SpecIdx == InitIdx /\ [][NextIdx]_vars

(***************************************************************************)
(* The destructive primitives and the file system they act on              *)
(***************************************************************************)
\* os.path.exists: a file, or a directory that holds a file
exists(d, p) ==
    \/ p \in DOMAIN d
    \/ \E q \in DOMAIN d : Len(q) > Len(p) /\ SubSeq(q, 1, Len(p)) = p

\* shutil.move(src, dst) onto a free name: the file is renamed
shutil_move(d, src, dst) ==
    [p \in (DOMAIN d \ {src}) \cup {dst} |-> IF p = dst THEN d[src] ELSE d[p]]

\* send2trash.send2trash(path) and os.remove(path): the file leaves the tree
unlink(d, path) == [p \in DOMAIN d \ {path} |-> d[p]]

\* the file names of the model, split as os.path.splitext splits them
Exts == {".txt", ".bin"}
BaseStems == {"doc", "only", "dup"}
Suffixed(S) == S \cup {s \o "_" \o ToString(c) : s \in S, c \in 1..MaxSuffix}
Stems == Suffixed(Suffixed(BaseStems))
splitext(fname) ==
    CHOOSE pair \in Stems \X Exts : pair[1] \o pair[2] = fname

\* the while loop of move_dupes: name_c.ext for the first c that is free
RECURSIVE next_free(_, _, _, _)
next_free(d, dest, fname, c) ==
    LET pair   == splitext(fname)
        target == Append(dest, pair[1] \o "_" \o ToString(c) \o pair[2])
    IN  IF exists(d, target) THEN next_free(d, dest, fname, c + 1) ELSE target

\* the destination without the loop: os.path.join(dest, fname) as it is
move_target_noloop(d, dest, fname) == Append(dest, fname)

\* the destination move_dupes computes for a file named fname
move_target(d, dest, fname) ==
    IF exists(d, Append(dest, fname))
    THEN next_free(d, dest, fname, 1)
    ELSE Append(dest, fname)

\* one entry of the log of primitive calls
Call(prim, path, dst, ok, root, pre) ==
    [prim |-> prim, path |-> path, dst |-> dst, ok |-> ok, root |-> root,
     pre |-> pre]

\* for d in results: for t_path in d['target_files']
RECURSIVE Flatten(_)
Flatten(ss) == IF ss = <<>> THEN <<>> ELSE Head(ss) \o Flatten(Tail(ss))
candidates(results) ==
    Flatten([j \in 1..Len(results) |-> results[j].target_files])

NewBatch(d) == [disk |-> d, calls |-> <<>>, count |-> 0, skipped |-> 0]

\* the loop of move_dupes over the first k candidates
RECURSIVE move_loop(_, _, _, _, _, _)
move_loop(cands, k, dest, root, lk, d) ==
    IF k = 0 THEN NewBatch(d)
    ELSE LET s      == move_loop(cands, k - 1, dest, root, lk, d)
             t_path == cands[k]
         IN  IF is_subpath_sync(t_path, root)
             THEN [s EXCEPT !.skipped = @ + 1]
             ELSE LET target == move_target(s.disk, dest, basename(t_path))
                      ok     == t_path \in DOMAIN s.disk /\ t_path \notin lk
                  IN  [disk    |-> IF ok THEN shutil_move(s.disk, t_path, target)
                                   ELSE s.disk,
                       calls   |-> Append(s.calls,
                                      Call("shutil.move", t_path, target, ok,
                                           root, s.disk)),
                       count   |-> s.count + (IF ok THEN 1 ELSE 0),
                       skipped |-> s.skipped]

\* a discard that counts the candidate before it calls the primitives
discard_count_first(s, path, root, lk, tok) ==
    LET there == path \in DOMAIN s.disk /\ path \notin lk
        c1    == Call("send2trash", path, NoPath, tok /\ there, root, s.disk)
        c2    == Call("os.remove", path, NoPath, there, root, s.disk)
    IN  [disk    |-> IF there THEN unlink(s.disk, path) ELSE s.disk,
         calls   |-> IF tok /\ there THEN Append(s.calls, c1)
                     ELSE Append(Append(s.calls, c1), c2),
         count   |-> s.count + 1,
         skipped |-> s.skipped]

\* try: send2trash(path)  except: try: os.remove(path)  except: pass
discard(s, path, root, lk, tok) ==
    LET there == path \in DOMAIN s.disk /\ path \notin lk
        c1    == Call("send2trash", path, NoPath, tok /\ there, root, s.disk)
        c2    == Call("os.remove", path, NoPath, there, root, s.disk)
    IN  [disk    |-> IF there THEN unlink(s.disk, path) ELSE s.disk,
         calls   |-> IF tok /\ there THEN Append(s.calls, c1)
                     ELSE Append(Append(s.calls, c1), c2),
         count   |-> s.count + (IF there THEN 1 ELSE 0),
         skipped |-> s.skipped]

\* the loop of trash_dupes over the first k candidates
RECURSIVE trash_loop(_, _, _, _, _, _)
trash_loop(cands, k, root, lk, tok, d) ==
    IF k = 0 THEN NewBatch(d)
    ELSE LET s      == trash_loop(cands, k - 1, root, lk, tok, d)
             t_path == cands[k]
         IN  IF is_subpath_sync(t_path, root)
             THEN [s EXCEPT !.skipped = @ + 1]
             ELSE discard(s, t_path, root, lk, tok)

\* history: the candidates of cands a primitive of the batch s succeeded
\* on are added to those of the earlier batches on the same list
Succeeded(s) == {s.calls[j].path : j \in {n \in 1..Len(s.calls) : s.calls[n].ok}}

Remember(cands, s) ==
    earlier' = [cands |-> cands,
                done  |-> (IF earlier.cands = cands THEN earlier.done ELSE {})
                              \cup Succeeded(s),
                runs  |-> (IF earlier.cands = cands THEN earlier.runs ELSE 0) + 1]

\* a batch ends: the file system and the log take its outcome
Commit(name, s) ==
    /\ disk' = s.disk
    /\ calls' = s.calls
    /\ op' = name
    /\ report' = [count |-> s.count, skipped |-> s.skipped]
    /\ batches' = batches + 1
    /\ dialog' = ""
    /\ UNCHANGED unreadable

\* a handler or thread step that calls no primitive: the log shows none
NoLog ==
    /\ calls' = <<>>
    /\ op' = ""
    /\ report' = [count |-> 0, skipped |-> 0]
    /\ dialog' = ""
    /\ UNCHANGED batches

(***************************************************************************)
(* sync.py: the sequential Comparator and the App                          *)
(***************************************************************************)
\* Comparator.get_identifier of sync.py
get_identifier(path, uh, d, unr) ==
    IF path \notin DOMAIN d \/ path \in unr THEN None
    ELSE IF ~uh THEN fast_key(path, d[path])
    ELSE exact_key(path, d[path])

\* the loop of index_folder over the first n listed files
RECURSIVE index_loop(_, _, _, _, _)
index_loop(files, n, uh, d, unr) ==
    IF n = 0 THEN EmptyIndex
    ELSE fold(index_loop(files, n - 1, uh, d, unr), files[n],
              get_identifier(files[n], uh, d, unr))

index_folder(folder, uh, d, unr) ==
    LET files == walk(folder, d)
    IN  index_loop(files, Len(files), uh, d, unr)

\* the folders a user can put into an entry, and the move destinations
DirD == <<"/", "D">>
DirE == <<"/", "E">>
MasterEntries == {NoPath, DirP, DirCa, DirC}
TargetEntries == {NoPath, DirC}
Dests == {DirD, DirE, DirP, DirCa}
C_b_doc == <<"/", "C", "b", "doc.txt">>
D_doc == <<"/", "D", "doc.txt">>
SyncDisk ==
    (P_doc :> "X") @@ (C_a_doc :> "X") @@ (C_b_doc :> "X") @@ (D_doc :> "W")

\* what the environment can make fail during a batch: the paths on which a
\* move, a trash or a remove raises (lk), and whether send2trash works (tok)
Locks == {{}, {C_b_doc}}

\* scans started whose result _populate has not taken yet
Pending == BagCardinality(threads) + Len(ui_queue)

\* App.start_scan of sync.py; m, t and uh are what the two entries and the
\* checkbox hold when the handler reads them
start_scan(m, t, uh) ==
    IF m = NoPath \/ t = NoPath \/ m = t
    THEN UNCHANGED <<master_path, target_path, btn_scan, threads>>
    ELSE /\ master_path' = m
         /\ target_path' = t
         /\ btn_scan' = "disabled"
         /\ threads' = threads (+) SetToBag({
                [master |-> m, target |-> t, use_hash |-> uh,
                 st |-> "master", m_idx |-> EmptyIndex]})

\* what the user can have put into the entries and the checkbox
Entries == [m : MasterEntries, t : TargetEntries, uh : BOOLEAN]

\* the COMPARE FOLDERS button
click_scan ==
    /\ btn_scan = "normal"
    /\ Pending < MaxScans
    /\ \E e \in Entries : start_scan(e.m, e.t, e.uh)
    /\ NoLog
    /\ UNCHANGED <<fsVars, ui_queue, syncVars, idxVars,
                   cacheVars>>

\* Comparator.run, first half: the protected folder is indexed
run_index_master ==
    /\ \E th \in BagToSet(threads) :
          /\ th.st = "master"
          /\ threads' = (threads (-) SetToBag({th})) (+) SetToBag({
                [th EXCEPT !.st = "target",
                           !.m_idx = index_folder(th.master, th.use_hash,
                                                  disk, unreadable)]})
    /\ NoLog
    /\ UNCHANGED <<fsVars, master_path, target_path, btn_scan, ui_queue,
                   syncVars, idxVars,
                   cacheVars>>

\* Comparator.run, second half: the cleanup folder is indexed, the two
\* indexes are compared and finish_scan queues _populate
run_index_target ==
    /\ \E th \in BagToSet(threads) :
          LET t_idx == index_folder(th.target, th.use_hash, disk, unreadable)
          IN  /\ th.st = "target"
              /\ ui_queue' = Append(ui_queue,
                                    cross_duplicates(TRUE, th.m_idx, t_idx))
              /\ threads' = threads (-) SetToBag({th})
    /\ NoLog
    /\ UNCHANGED <<fsVars, master_path, target_path, btn_scan, syncVars, idxVars,
                   cacheVars>>

\* App._populate
populate ==
    /\ ui_queue # <<>>
    /\ scan_results' = Head(ui_queue)
    /\ UNCHANGED earlier
    /\ btn_scan' = "normal"
    /\ ui_queue' = Tail(ui_queue)
    /\ NoLog
    /\ UNCHANGED <<fsVars, master_path, target_path, threads,
                   idxVars,
                   cacheVars>>

\* App.move_dupes
move_dupes ==
    /\ scan_results # <<>>
    /\ batches < MaxBatches
    /\ Pending < MaxScans
    /\ \E dest \in Dests, lk \in Locks :
          LET cands == candidates(scan_results)
              s     == move_loop(cands, Len(cands), dest, master_path, lk, disk)
          IN  Commit("move_dupes", s) /\ Remember(cands, s)
    /\ \E e \in Entries : start_scan(e.m, e.t, e.uh)
    /\ UNCHANGED <<ui_queue, scan_results, idxVars,
                   cacheVars>>

\* App.trash_dupes
trash_dupes ==
    /\ scan_results # <<>>
    /\ batches < MaxBatches
    /\ Pending < MaxScans
    /\ \E lk \in Locks, tok \in BOOLEAN :
          LET cands == candidates(scan_results)
              s     == trash_loop(cands, Len(cands), master_path, lk, tok, disk)
          IN  Commit("trash_dupes", s) /\ Remember(cands, s)
    /\ \E e \in Entries : start_scan(e.m, e.t, e.uh)
    /\ UNCHANGED <<ui_queue, scan_results, idxVars,
                   cacheVars>>

\* the Comparator of the thread-level specification is not running
IdxIdle ==
    /\ cmp = [master |-> NoPath, target |-> NoPath, use_hash |-> FALSE]
    /\ stop_event = FALSE
    /\ pc = "done"
    /\ label = ""
    /\ all_files = <<>>
    /\ queue = <<>>
    /\ inflight = {}
    /\ done_q = <<>>
    /\ i = 0
    /\ index = EmptyIndex
    /\ ret_idx = EmptyIndex
    /\ target_idx = EmptyIndex
    /\ master_idx = EmptyIndex
    /\ alerts = 0
    /\ progress = <<>>
    /\ finished = <<>>
    /\ low_i = -1
    /\ low_label = ""
    /\ read_after_check = FALSE
    /\ flight_at_stop = {}
    /\ late_reads = <<>>
    /\ io = <<>>
    /\ verdict = NoVerdict
    /\ sampled = ""
    /\ listed = {}

InitSync ==
    /\ disk = SyncDisk
    /\ unreadable = {}
    /\ AppIdle
    /\ IdxIdle

NextSync ==
    \/ click_scan
    \/ run_index_master
    \/ run_index_target
    \/ populate
    \/ move_dupes
    \/ trash_dupes

SpecSync == InitSync /\ [][NextSync]_vars

(***************************************************************************)
(* sync_cache_smart.py: the App, with its Comparator threads summarised    *)
(* by the indexes they can deliver (every completion order of the pool)    *)
(***************************************************************************)
DirCc1 == <<"/", "C", "c1">>
CacheMasterEntries == {NoPath, DirP, DirCc1, DirC}
CacheTargetEntries == {NoPath, DirC}
CacheEntries == [m : CacheMasterEntries, t : CacheTargetEntries, uh : {TRUE}]
CacheLocks == {{}, {C_c2_dup}}

\* len(path) of the path string: "/" and the components joined by "/"
RECURSIVE strlen(_)
strlen(p) == IF Len(p) <= 1 THEN Len(p)
             ELSE strlen(SubSeq(p, 1, Len(p) - 1)) + Len(p[Len(p)])
                  + (IF Len(p) > 2 THEN 1 ELSE 0)

\* list.sort(key=len): stable, by insertion
RECURSIVE insert_by_len(_, _)
insert_by_len(s, x) ==
    IF s = <<>> THEN <<x>>
    ELSE IF strlen(s[Len(s)]) <= strlen(x) THEN Append(s, x)
    ELSE Append(insert_by_len(SubSeq(s, 1, Len(s) - 1), x), s[Len(s)])

RECURSIVE sort_by_len(_)
sort_by_len(s) ==
    IF s = <<>> THEN <<>>
    ELSE insert_by_len(sort_by_len(SubSeq(s, 1, Len(s) - 1)), s[Len(s)])

\* the index process_folder_parallel returns when the futures complete in
\* the given order
index_of(order, uh, d, unr) == index_loop(order, Len(order), uh, d, unr)

\* the completion orders the App-level model draws from: submission order
\* and its reverse, which give every bucket both orders of its members
Reverse(s) == [k \in 1..Len(s) |-> s[Len(s) + 1 - k]]
CompletionOrders(folder, d) == {walk(folder, d), Reverse(walk(folder, d))}

\* one entry of the log of primitive calls of the cache App: root is
\* self.master_path when the handler runs, scan the protected root of the
\* scan whose indexes the handler's candidates were classified from
CacheCall(path, ok, pre, scan) ==
    [prim |-> "send2trash", path |-> path, dst |-> NoPath, ok |-> ok,
     root |-> master_path, pre |-> pre, scan |-> scan]

\* try: send2trash(path); count += 1  except: pass  (it raises on the
\* paths of lk and on a path that is gone)
trash_one(s, path, lk, scan) ==
    LET ok == path \in DOMAIN s.disk /\ path \notin lk
    IN  [disk    |-> IF ok THEN unlink(s.disk, path) ELSE s.disk,
         calls   |-> Append(s.calls, CacheCall(path, ok, s.disk, scan)),
         count   |-> s.count + (IF ok THEN 1 ELSE 0),
         skipped |-> s.skipped]

\* the loop of trash_cross over the first k candidates; a vetoed candidate
\* is passed over with continue: the handler has no skipped counter and its
\* message names the count alone
RECURSIVE trash_cross_loop(_, _, _, _, _)
trash_cross_loop(cands, k, lk, scan, d) ==
    IF k = 0 THEN NewBatch(d)
    ELSE LET s    == trash_cross_loop(cands, k - 1, lk, scan, d)
             path == cands[k]
         IN  IF master_path # NoPath /\ is_subpath(path, master_path)
             THEN s
             ELSE trash_one(s, path, lk, scan)

\* the loops of auto_cull_internal: every group sorted by length, all but
\* its first path trashed
to_delete(groups) ==
    Flatten([g \in 1..Len(groups) |-> Tail(sort_by_len(groups[g]))])

RECURSIVE cull_loop(_, _, _, _, _)
cull_loop(paths, k, lk, scan, d) ==
    IF k = 0 THEN NewBatch(d)
    ELSE trash_one(cull_loop(paths, k - 1, lk, scan, d), paths[k], lk, scan)

\* populate_trees: the rows of tree_internal that carry a path
rows_of(groups) ==
    UNION {{groups[g][k] : k \in 1..Len(groups[g])} : g \in 1..Len(groups)}

\* App.calculate_and_populate on the indexes m_idx, t_idx with mode md;
\* root is the protected root of the scan that built the indexes
calculate_and_populate(md, m_idx, t_idx, root) ==
    LET two_folder == md = 1 /\ m_idx # EmptyIndex
    IN  IF t_idx = NotADict
        THEN /\ aliased' = FALSE
             /\ UNCHANGED <<cross_dupes, internal_dupes, tree_internal,
                            btn_scan, classified>>
        ELSE /\ cross_dupes' = cross_duplicates(two_folder, m_idx, t_idx)
             /\ internal_dupes' = internal_duplicates(two_folder, m_idx, t_idx)
             /\ tree_internal' =
                   rows_of(internal_duplicates(two_folder, m_idx, t_idx))
             /\ btn_scan' = "normal"
             /\ classified' = [mode |-> md, m_idx |-> m_idx, t_idx |-> t_idx,
                               root |-> root]
             /\ aliased' = TRUE

\* App.clear_results
clear_results ==
    /\ last_master_idx' = EmptyIndex
    /\ last_target_idx' = EmptyIndex
    /\ cross_dupes' = <<>>
    /\ internal_dupes' = <<>>
    /\ tree_internal' = {}
    /\ idx_root' = NoPath
    /\ classified' = [mode |-> mode, m_idx |-> EmptyIndex,
                      t_idx |-> EmptyIndex, root |-> NoPath]
    /\ aliased' = FALSE

\* App.start_scan of sync_cache_smart.py; m_ent, t and uh are what the
\* entries and the checkbox hold when the handler reads them
cache_start_scan(m_ent, t, uh) ==
    LET m == IF mode = 1 THEN m_ent ELSE NoPath
    IN  IF t = NoPath
        THEN UNCHANGED <<master_path, target_path, btn_scan, threads,
                         last_master_idx, last_target_idx, cross_dupes,
                         internal_dupes, tree_internal, idx_root, classified,
                         aliased>>
        ELSE /\ master_path' = m
             /\ target_path' = t
             /\ btn_scan' = "disabled"
             /\ clear_results
             /\ threads' = threads (+) SetToBag({
                    [master |-> m, target |-> t, use_hash |-> uh,
                     st |-> "target", t_idx |-> EmptyIndex]})

\* the START SCAN button
cache_click_scan ==
    /\ btn_scan = "normal"
    /\ Pending < MaxCacheScans
    /\ \E e \in CacheEntries : cache_start_scan(e.m, e.t, e.uh)
    /\ NoLog
    /\ UNCHANGED <<fsVars, ui_queue, mode, cache_file, syncVars,
                   idxVars>>

\* the mode radio buttons
toggle_mode ==
    /\ mode' = 3 - mode
    /\ NoLog
    /\ UNCHANGED <<fsVars, uiVars, last_master_idx, last_target_idx,
                   cross_dupes, internal_dupes, tree_internal, cache_file,
                   idx_root, classified, aliased, syncVars, idxVars>>

\* Comparator.run, first call of process_folder_parallel: the cleanup index
cache_run_target ==
    /\ \E th \in BagToSet(threads) :
          /\ th.st = "target"
          /\ \E order \in CompletionOrders(th.target, disk) :
                threads' = (threads (-) SetToBag({th})) (+) SetToBag({
                    [th EXCEPT !.st = "master",
                               !.t_idx = index_of(order, th.use_hash, disk,
                                                  unreadable)]})
    /\ NoLog
    /\ UNCHANGED <<fsVars, master_path, target_path, btn_scan, ui_queue,
                   cacheVars, syncVars, idxVars>>

\* Comparator.run, second call and self.finish: App.scan_finished stores the
\* indexes on the worker thread and queues calculate_and_populate
cache_run_master ==
    /\ \E th \in BagToSet(threads) :
          /\ th.st = "master"
          /\ IF th.master = NoPath
             THEN last_master_idx' = EmptyIndex
             ELSE \E order \in CompletionOrders(th.master, disk) :
                     last_master_idx' =
                         index_of(order, th.use_hash, disk, unreadable)
          /\ last_target_idx' = th.t_idx
          /\ idx_root' = th.master
          /\ threads' = threads (-) SetToBag({th})
    /\ aliased' = FALSE
    /\ ui_queue' = Append(ui_queue, "calculate_and_populate")
    /\ NoLog
    /\ UNCHANGED <<fsVars, master_path, target_path, btn_scan, mode,
                   cross_dupes, internal_dupes, tree_internal, cache_file,
                   classified, syncVars, idxVars>>

\* a free-space sample below the floor: stop_event is set, alert_user queues
\* the warning and run returns without calling self.finish
cache_run_alert ==
    /\ \E th \in BagToSet(threads) :
          /\ IF th.st = "target" THEN walk(th.target, disk) # <<>>
             ELSE th.master # NoPath /\ walk(th.master, disk) # <<>>
          /\ threads' = threads (-) SetToBag({th})
    /\ ui_queue' = Append(ui_queue, "alert_user")
    /\ NoLog
    /\ UNCHANGED <<fsVars, master_path, target_path, btn_scan, cacheVars,
                   syncVars, idxVars>>

\* the root.after callback of scan_finished
ui_calculate ==
    /\ ui_queue # <<>>
    /\ Head(ui_queue) = "calculate_and_populate"
    /\ ui_queue' = Tail(ui_queue)
    /\ calculate_and_populate(mode, last_master_idx, last_target_idx,
                              idx_root)
    /\ NoLog
    /\ UNCHANGED <<fsVars, master_path, target_path, threads, mode,
                   last_master_idx, last_target_idx, cache_file, idx_root,
                   syncVars, idxVars>>

\* the root.after callbacks of alert_user
ui_alert ==
    /\ ui_queue # <<>>
    /\ Head(ui_queue) = "alert_user"
    /\ ui_queue' = Tail(ui_queue)
    /\ btn_scan' = "normal"
    /\ NoLog
    /\ UNCHANGED <<fsVars, master_path, target_path, threads, cacheVars,
                   syncVars, idxVars>>

\* a handler that calls no primitive and ends with the message box msg
Shows(msg) ==
    /\ calls' = <<>>
    /\ op' = ""
    /\ report' = [count |-> 0, skipped |-> 0]
    /\ dialog' = msg
    /\ UNCHANGED batches

\* App.save_cache
save_cache ==
    /\ last_target_idx # EmptyIndex
    /\ cache_file.writes < MaxSaves
    /\ cache_file' =
          [present |-> TRUE, writes |-> cache_file.writes + 1,
           loads |-> cache_file.loads,
           file |-> pickle_dump(last_master_idx, last_target_idx, mode,
                                idx_root)]
    /\ NoLog
    /\ UNCHANGED <<fsVars, uiVars, mode, last_master_idx, last_target_idx,
                   cross_dupes, internal_dupes, tree_internal, idx_root,
                   classified, aliased, syncVars, idxVars>>

\* the files askopenfilename can return
Files == (IF cache_file.present THEN {cache_file.file} ELSE {}) \cup ForeignFiles

\* App.load_cache on the file f: pickle.load or data.get raise before any
\* assignment; calculate_and_populate raises after the three assignments
load_file(f) ==
    /\ IF f.kind # "dict"
       THEN /\ Shows("Error")
            /\ UNCHANGED <<btn_scan, mode, last_master_idx, last_target_idx,
                           cross_dupes, internal_dupes, tree_internal,
                           idx_root, classified, aliased>>
       ELSE /\ last_master_idx' = get_index(f, "master")
            /\ last_target_idx' = get_index(f, "target")
            /\ mode' = get_mode(f)
            /\ idx_root' = f.root
            /\ calculate_and_populate(get_mode(f), get_index(f, "master"),
                                      get_index(f, "target"), f.root)
            /\ Shows(IF get_index(f, "target") = NotADict
                     THEN "Error" ELSE "Loaded")
    /\ cache_file' = [cache_file EXCEPT !.loads = @ + 1]
    /\ UNCHANGED <<fsVars, master_path, target_path, threads, ui_queue,
                   syncVars, idxVars>>

load_cache ==
    /\ cache_file.loads < MaxLoads
    /\ \E f \in Files : load_file(f)

\* the menu entry Clear Current Results
menu_clear_results ==
    /\ clear_results
    /\ NoLog
    /\ UNCHANGED <<fsVars, uiVars, mode, cache_file, syncVars,
                   idxVars>>

\* App.trash_cross
trash_cross ==
    /\ cross_dupes # <<>>
    /\ batches < MaxCacheBatches
    /\ Pending < MaxCacheScans
    /\ \E lk \in CacheLocks :
          LET cands == candidates(cross_dupes)
          IN  Commit("trash_cross",
                     trash_cross_loop(cands, Len(cands), lk, classified.root,
                                      disk))
    /\ \E e \in CacheEntries :
          IF e.t = NoPath
          THEN /\ tree_internal' = {}
               /\ UNCHANGED <<master_path, target_path, btn_scan, threads,
                              last_master_idx, last_target_idx, cross_dupes,
                              internal_dupes, idx_root, classified, aliased>>
          ELSE cache_start_scan(e.m, e.t, e.uh)
    /\ UNCHANGED <<ui_queue, mode, cache_file, syncVars, idxVars>>

\* App.delete_selected_internal on the selected row
delete_selected_internal ==
    /\ batches < MaxDeletes
    /\ \E path \in tree_internal, lk \in CacheLocks :
          /\ exists(disk, path)
          /\ LET s == trash_one(NewBatch(disk), path, lk, classified.root)
             IN  /\ Commit("delete_selected_internal", s)
                 /\ tree_internal' = IF s.count = 1
                                     THEN tree_internal \ {path}
                                     ELSE tree_internal
    /\ UNCHANGED <<uiVars, mode, last_master_idx, last_target_idx,
                   cross_dupes, internal_dupes, cache_file, idx_root,
                   classified, aliased, syncVars, idxVars>>

\* group.sort(key=len) sorts the bucket of the index the group is
sorted_buckets(idx, groups) ==
    [j \in 1..Len(idx) |->
        IF \E g \in 1..Len(groups) : groups[g] = idx[j].paths
        THEN [idx[j] EXCEPT !.paths = sort_by_len(@)]
        ELSE idx[j]]

\* App.auto_cull_internal
auto_cull_internal ==
    /\ internal_dupes # <<>>
    /\ batches < MaxCacheBatches
    /\ Pending < MaxCacheScans
    /\ \E lk \in CacheLocks :
          LET paths == to_delete(internal_dupes)
          IN  Commit("auto_cull_internal",
                     cull_loop(paths, Len(paths), lk, classified.root, disk))
    /\ \E e \in CacheEntries :
          IF e.t = NoPath
          THEN /\ internal_dupes' =
                     [g \in 1..Len(internal_dupes) |->
                         sort_by_len(internal_dupes[g])]
               /\ last_target_idx' =
                     IF aliased
                     THEN sorted_buckets(last_target_idx, internal_dupes)
                     ELSE last_target_idx
               /\ UNCHANGED <<master_path, target_path, btn_scan, threads,
                              last_master_idx, cross_dupes, tree_internal,
                              idx_root, classified, aliased>>
          ELSE cache_start_scan(e.m, e.t, e.uh)
    /\ UNCHANGED <<ui_queue, mode, cache_file, syncVars, idxVars>>

InitCache ==
    /\ disk = ScenarioDisk
    /\ unreadable = {}
    /\ AppIdle
    /\ IdxIdle

NextCache ==
    \/ cache_click_scan
    \/ toggle_mode
    \/ cache_run_target
    \/ cache_run_master
    \/ cache_run_alert
    \/ ui_calculate
    \/ ui_alert
    \/ save_cache
    \/ load_cache
    \/ menu_clear_results
    \/ trash_cross
    \/ delete_selected_internal
    \/ auto_cull_internal

SpecCache == InitCache /\ [][NextCache]_vars

(***************************************************************************)
(* Properties of the Comparator (checked under SpecIdx)                    *)
(***************************************************************************)
\* an index as a set of (key, set of paths): what is left of it when the
\* order of the keys and the order inside the buckets are forgotten
IndexView(idx) ==
    {<<idx[j].ident, {idx[j].paths[k] : k \in 1..Len(idx[j].paths)}>> :
        j \in 1..Len(idx)}

SeqToSet(s) == {s[k] : k \in 1..Len(s)}

\* the pass that took the low sample has returned to run()
Returned == pc \in {"ret", "done"}

C6_LowSampleCancels ==
    low_i >= 0 =>
        /\ finished = <<>>
        /\ pc # "low" => (stop_event /\ ret_idx = EmptyIndex)
        /\ pc = "done" => (label = "Target" => target_idx = EmptyIndex)
                          /\ (label = "Master" => master_idx = EmptyIndex)

\* C6 witness: a sample after the first one read low when results had
\* already been folded, and the scan has ended.
C6_Witness ==
    low_i > 0 /\ pc = "done" /\ index # EmptyIndex /\ stop_event

\* C7: once the target pass is cancelled, the master tree is never listed,
\* no master pass starts and no classification is delivered.
C7_CancelStopsLaterPhases ==
    (stop_event /\ low_label = "Target") =>
        /\ "Master" \notin listed
        /\ finished = <<>>

\* C7 witness: a two-folder scan cancelled in its target pass has ended.
C7_Witness ==
    stop_event /\ low_label = "Target" /\ pc = "done" /\ cmp.master # NoPath

C10_IndexerIdempotent ==
    (pc = "done" /\ ~stop_event /\ cmp.master = cmp.target) =>
        IndexView(master_idx) = IndexView(target_idx)

\* C10 witness: the two passes completed in different orders (the indexes
\* differ as sequences) over a tree with files.
C10_Witness ==
    /\ pc = "done" /\ ~stop_event /\ cmp.master = cmp.target
    /\ target_idx # EmptyIndex
    /\ master_idx # target_idx

(***************************************************************************)
(* Properties of the App of sync.py (checked under SpecSync)               *)
(***************************************************************************)
\* the file system after the k-th primitive call of the last batch
PostOf(k) == IF k < Len(calls) THEN calls[k + 1].pre ELSE disk

\* the files of d below root
Under(d, root) == {p \in DOMAIN d : is_subpath_sync(p, root)}

\* the name move_dupes tries after c collisions (c = 0: the name itself)
Tried(dest, fname, c) ==
    IF c = 0 THEN Append(dest, fname)
    ELSE Append(dest, splitext(fname)[1] \o "_" \o ToString(c)
                      \o splitext(fname)[2])

\* C3 (as the claim states it): no primitive call of a batch changes the set
\* of files below the protected root or the content of one of them; a move
\* never creates a file below the protected root.
C3_ProtectedTreeUnchanged ==
    \A k \in 1..Len(calls) :
        LET c == calls[k]
        IN  /\ Under(PostOf(k), c.root) = Under(c.pre, c.root)
            /\ \A p \in Under(c.pre, c.root) : PostOf(k)[p] = c.pre[p]

\* C4: in a move batch every successful move goes to a name that did not
\* exist just before it, the first free one of fname, name_1.ext,
\* name_2.ext, ...; the moved file arrives with its content, every other
\* file keeps its path and content, and a failed move changes nothing; two
\* successful moves of one batch never end at the same destination.
C4_CollisionFreeMove ==
    op = "move_dupes" =>
        \A k \in 1..Len(calls) :
            LET c     == calls[k]
                post  == PostOf(k)
                dest  == dirname(c.dst)
                fname == basename(c.path)
            IN  IF c.ok
                THEN /\ ~exists(c.pre, c.dst)
                     /\ \E n \in 0..Cardinality(DOMAIN c.pre) :
                           /\ c.dst = Tried(dest, fname, n)
                           /\ \A j \in 0..(n - 1) :
                                 exists(c.pre, Tried(dest, fname, j))
                     /\ DOMAIN post = (DOMAIN c.pre \ {c.path}) \cup {c.dst}
                     /\ post[c.dst] = c.pre[c.path]
                     /\ \A p \in DOMAIN c.pre \ {c.path} : post[p] = c.pre[p]
                     /\ \A j \in 1..Len(calls) :
                           (j # k /\ calls[j].ok) => calls[j].dst # c.dst
                ELSE post = c.pre

\* a batch moved two candidates of one base name into a folder that already
\* held a file of that name
C4_Witness ==
    /\ op = "move_dupes"
    /\ \E j, k \in 1..Len(calls) :
          /\ j < k
          /\ calls[j].ok
          /\ calls[k].ok
          /\ basename(calls[j].path) = basename(calls[k].path)
          /\ dirname(calls[j].dst) = dirname(calls[k].dst)
          /\ Append(dirname(calls[j].dst), basename(calls[j].path))
                \in DOMAIN calls[j].pre
          /\ calls[j].dst \in DOMAIN disk
          /\ calls[k].dst \in DOMAIN disk

(***************************************************************************)
(* Properties of the App of sync_cache_smart.py (checked under SpecCache)  *)
(***************************************************************************)
\* C1 (as the claim states it): whatever scans, cache saves and cache loads
\* came before, trash_cross passes no path to send2trash that lies below the
\* protected root of the scan its candidates were classified from.
C1_NoProtectedPathDiscarded ==
    op = "trash_cross" =>
        \A k \in 1..Len(calls) :
            ~is_subpath(calls[k].path, calls[k].scan)

\* C2 (as the claim states it): every handler that trashes files, the two
\* handlers of the internal groups included, leaves out the candidates below
\* self.master_path: no primitive is called on such a path.
C2_GuardAtEveryAction ==
    \A k \in 1..Len(calls) :
        ~is_subpath(calls[k].path, calls[k].root)

\* the paths of a record of either partition, and all records together
Members(s) == {s[k] : k \in 1..Len(s)}
Records ==
    [r \in 1..Len(cross_dupes) |-> cross_dupes[r].target_files]
        \o internal_dupes

\* C8: the classification gives every key of the cleanup index exactly one
\* outcome: a cross record when the mode is two-folder and the protected
\* index has the key, else a group when the bucket has more than one path,
\* else no record; there is no record beside these, no path is in two
\* records and none is twice in one.
C8_ClassifierPartitions ==
    LET t_idx      == classified.t_idx
        in_cross(e) == \E r \in 1..Len(cross_dupes) :
                          Members(cross_dupes[r].target_files) = Members(e.paths)
        in_group(e) == \E g \in 1..Len(internal_dupes) :
                          Members(internal_dupes[g]) = Members(e.paths)
        is_cross(e) == classified.mode = 1 /\ HasIdent(classified.m_idx, e.ident)
        is_group(e) == ~is_cross(e) /\ Len(e.paths) > 1
    IN  /\ \A j \in 1..Len(t_idx) :
              /\ in_cross(t_idx[j]) <=> is_cross(t_idx[j])
              /\ in_group(t_idx[j]) <=> is_group(t_idx[j])
        /\ Len(cross_dupes) =
              Cardinality({j \in 1..Len(t_idx) : is_cross(t_idx[j])})
        /\ Len(internal_dupes) =
              Cardinality({j \in 1..Len(t_idx) : is_group(t_idx[j])})
        /\ \A a, b \in 1..Len(Records) :
              a # b => Members(Records[a]) \cap Members(Records[b]) = {}
        /\ \A a \in 1..Len(Records) :
              Cardinality(Members(Records[a])) = Len(Records[a])

\* a classification in two-folder mode gave a cross record, a group and a
\* key without a record
C8_Witness ==
    /\ classified.mode = 1
    /\ cross_dupes # <<>>
    /\ internal_dupes # <<>>
    /\ \E j \in 1..Len(classified.t_idx) :
          /\ Len(classified.t_idx[j].paths) = 1
          /\ ~HasIdent(classified.m_idx, classified.t_idx[j].ident)

(***************************************************************************)
(* Properties of the index a completed pass returns (SpecIdx)              *)
(***************************************************************************)
\* the number of places path has in the buckets of idx
Occ(idx, path) ==
    Cardinality({<<j, k>> \in (1..Len(idx)) \X (1..Cardinality(DOMAIN disk)) :
                    k <= Len(idx[j].paths) /\ idx[j].paths[k] = path})

\* the key get_identifier gives a readable file in the mode of the scan
ident_of(path) ==
    IF cmp.use_hash THEN exact_key(path, disk[path]) ELSE fast_key(path, disk[path])

\* idx is the index of the files enumerated below folder: a file that was
\* identified has one place, under its own key; a file that was not has
\* none; each key has one bucket and no bucket holds anything else
IndexOf(idx, folder) ==
    LET files == SeqToSet(walk(folder, disk))
    IN  /\ \A p \in files : Occ(idx, p) = IF p \in unreadable THEN 0 ELSE 1
        /\ \A j \in 1..Len(idx) :
              /\ idx[j].paths # <<>>
              /\ \A k \in 1..Len(idx[j].paths) :
                    /\ idx[j].paths[k] \in files
                    /\ idx[j].ident = ident_of(idx[j].paths[k])
              /\ \A h \in 1..Len(idx) : idx[h].ident = idx[j].ident => h = j

\* C11: in the index returned by a pass that was not cancelled, every
\* enumerated file whose identification succeeded is in exactly one bucket,
\* the one of its key, exactly once; every file whose identification failed
\* is in no bucket; the fold of the worker results loses and adds nothing.
C11_IndexInvariant ==
    /\ (pc = "ret" /\ ~stop_event) =>
          IndexOf(ret_idx, IF label = "Target" THEN cmp.target ELSE cmp.master)
    /\ (pc = "done" /\ ~stop_event) =>
          /\ IndexOf(target_idx, cmp.target)
          /\ cmp.master # NoPath => IndexOf(master_idx, cmp.master)

\* C11 witness: a two-folder scan has ended without cancellation over a
\* cleanup tree with an unreadable file and a bucket of two paths.
C11_Witness ==
    /\ pc = "done" /\ ~stop_event /\ cmp.master # NoPath
    /\ unreadable # {}
    /\ \E p \in unreadable : p \in SeqToSet(walk(cmp.target, disk))
    /\ \E j \in 1..Len(target_idx) : Len(target_idx[j].paths) = 2

(***************************************************************************)
(* Properties of save_cache and load_cache (SpecCache)                     *)
(***************************************************************************)
\* the cache file is what save_cache would write now, and the partitions
\* shown are those of the last classification run on the current indexes:
\* the App is as the save left it
AsSaved ==
    /\ cache_file.present
    /\ aliased
    /\ cache_file.file =
          pickle_dump(last_master_idx, last_target_idx, mode, idx_root)

\* C12 as stated: loading the file right after it was saved gives the
\* cross_dupes and internal_dupes of the classification run that preceded
\* the save, whatever the mode was toggled to between that run and the save.
C12_CacheRoundTrip ==
    [][(AsSaved /\ load_file(cache_file.file)) =>
          (cross_dupes' = cross_dupes /\ internal_dupes' = internal_dupes)]_vars

\* what holds instead: the round trip reproduces the classification when
\* the mode at the save is the mode the classification ran with
C12_SameModeRoundTrip ==
    [][(AsSaved /\ classified.mode = mode /\ load_file(cache_file.file)) =>
          (cross_dupes' = cross_dupes /\ internal_dupes' = internal_dupes)]_vars

\* the cache file holds what save_cache would write now: the indexes and
\* the mode are those of the time of the save
FileOfNow ==
    /\ cache_file.present
    /\ cache_file.file =
          pickle_dump(last_master_idx, last_target_idx, mode, idx_root)

\* C13: load_cache applied to the file save_cache wrote restores a
\* protected index and a cleanup index with the same keys, the same paths
\* per key in the same order, and the same mode value as at save time.
C13_PersistenceRoundTrip ==
    [][(FileOfNow /\ load_file(cache_file.file)) =>
          /\ last_master_idx' = last_master_idx
          /\ last_target_idx' = last_target_idx
          /\ mode' = mode]_vars

\* C13 witness: the saved file of a two-folder scan, with a bucket of two
\* paths in the cleanup index, has been loaded.
C13_Witness ==
    /\ dialog = "Loaded"
    /\ FileOfNow
    /\ mode = 1
    /\ last_master_idx # EmptyIndex
    /\ \E j \in 1..Len(last_target_idx) : Len(last_target_idx[j].paths) = 2

\* C14 as stated: loading a file whose content does not have the expected
\* structure (no pickle, no dict, a dict lacking 'master', 'target' or
\* 'mode', a 'target' that is no dict) ends with the error box and is never
\* taken for a valid empty scan.
C14_MalformedLoadFails ==
    [][\A f \in ForeignFiles :
          (~WellFormed(f) /\ cache_file.loads < MaxLoads /\ load_file(f)) =>
              dialog' = "Error"]_vars

\* C15 as stated: whenever load_cache ends with the error box, the
\* protected index, the cleanup index, the mode and the two partitions of
\* the classification are what they were before the load.
C15_FailedLoadKeepsState ==
    [][(load_cache /\ dialog' = "Error") =>
          UNCHANGED <<last_master_idx, last_target_idx, mode, cross_dupes,
                      internal_dupes>>]_vars

(***************************************************************************)
(* Properties of start_scan                                                *)
(***************************************************************************)
\* C16 as stated: start_scan starts no Comparator when the cleanup root is
\* empty, nor when a protected root is given that equals the cleanup root:
\* no Comparator thread has an empty target or a master equal to its target.
C16_ConfigErrorsRejected ==
    \A th \in BagToSet(threads) :
        /\ th.target # NoPath
        /\ th.master # NoPath => th.master # th.target

(***************************************************************************)
(* Properties of the batches of sync.py (SpecSync)                         *)
(***************************************************************************)
\* the last handler was a Move or Discard batch of sync.py; scan_results
\* still holds the records its candidates were taken from
BatchDone == op \in {"move_dupes", "trash_dupes"}

\* the candidates of the batch a primitive was called on
Attempted ==
    {k \in 1..Len(candidates(scan_results)) :
        \E j \in 1..Len(calls) : calls[j].path = candidates(scan_results)[k]}

\* the candidates of the batch whose primitive call failed (for a discard:
\* send2trash and os.remove both)
Failed ==
    {k \in Attempted :
        \A j \in 1..Len(calls) :
            calls[j].path = candidates(scan_results)[k] => ~calls[j].ok}

\* C17 as stated: a Move or Discard batch is not aborted by the failure of
\* one candidate (every candidate is vetoed or has its primitive called),
\* and each failed candidate is counted as skipped: on return the success
\* count plus the skipped count is the number of candidates.
C17_FailuresCountedSkipped ==
    BatchDone =>
        /\ Cardinality(Attempted) + report.skipped = Len(candidates(scan_results))
        /\ report.count + report.skipped = Len(candidates(scan_results))

\* what holds instead: the batch is not aborted, the success count is the
\* number of candidates whose primitive succeeded, and the failed ones are
\* in neither counter
C17_BatchContinues ==
    BatchDone =>
        /\ Cardinality(Attempted) + report.skipped = Len(candidates(scan_results))
        /\ report.count = Cardinality(Attempted \ Failed)
        /\ report.count + report.skipped + Cardinality(Failed)
              = Len(candidates(scan_results))

(***************************************************************************)
(* Properties of the guard's veto and of the discard primitive             *)
(***************************************************************************)
\* the candidates of cands the guard of sync.py vetoes, and those the guard
\* of trash_cross vetoes, for the protected root the handler finds
VetoedSync(cands) ==
    {k \in 1..Len(cands) : is_subpath_sync(cands[k], master_path)}

VetoedCache(cands) ==
    {k \in 1..Len(cands) :
        master_path # NoPath /\ is_subpath(cands[k], master_path)}

\* the batch of the step reports as skipped the candidates of V and called
\* no primitive on one of them
CountsVetoed(cands, V) ==
    /\ report'.skipped = Cardinality(V)
    /\ \A k \in V : \A j \in 1..Len(calls') : calls'[j].path # cands[k]

\* C18 as stated: in a Move or Discard batch (move_dupes and trash_dupes of
\* sync.py, trash_cross of sync_cache_smart.py) every candidate the guard
\* vetoes is not acted on and adds one to the skipped counter; the skipped
\* count reported is the number of vetoed candidates.
C18_VetoCountedSkipped ==
    [][/\ op' \in {"move_dupes", "trash_dupes"} =>
             CountsVetoed(candidates(scan_results),
                          VetoedSync(candidates(scan_results)))
       /\ op' = "trash_cross" =>
             CountsVetoed(candidates(cross_dupes),
                          VetoedCache(candidates(cross_dupes)))]_vars

\* C19 as stated: in a Discard batch (trash_dupes of sync.py, trash_cross of
\* sync_cache_smart.py and sync_cloud_smart.py), when send2trash fails on a
\* candidate the guard let through, os.remove is called on it next, and the
\* file is gone when that call succeeds.
C19_DiscardFallsBack ==
    op \in {"trash_dupes", "trash_cross"} =>
        \A k \in 1..Len(calls) :
            (calls[k].prim = "send2trash" /\ ~calls[k].ok) =>
                /\ k < Len(calls)
                /\ calls[k + 1].prim = "os.remove"
                /\ calls[k + 1].path = calls[k].path
                /\ calls[k + 1].ok => ~exists(PostOf(k + 1), calls[k].path)

(***************************************************************************)
(* Properties of a batch run again on its candidate list (SpecSync)        *)
(***************************************************************************)
\* the step is a Move or Discard batch of sync.py on the candidate list an
\* earlier batch ran on (scan_results was not replaced in between)
Rerun ==
    /\ op' \in {"move_dupes", "trash_dupes"}
    /\ earlier.runs > 0
    /\ earlier.cands = candidates(scan_results)

\* the file system after the k-th primitive call of the batch of the step
PostOfStep(k) == IF k < Len(calls') THEN calls'[k + 1].pre ELSE disk'

\* the batch of the step acts only where a file is: a call on a source path
\* that holds no file fails and changes nothing, and the count is the number
\* of candidates a call succeeded on
ActsOnPresent ==
    /\ \A k \in 1..Len(calls') :
          ~exists(calls'[k].pre, calls'[k].path) =>
              (~calls'[k].ok /\ PostOfStep(k) = calls'[k].pre)
    /\ report'.count =
          Cardinality({calls'[k].path : k \in {n \in 1..Len(calls') : calls'[n].ok}})

\* C20 as stated: a batch run again on the same candidate list acts only on
\* candidates still present at their source path; a candidate an earlier
\* run has moved or discarded causes no file to be created, moved or
\* deleted and is not counted as a success.
C20_BatchIdempotent ==
    [][Rerun =>
          /\ ActsOnPresent
          /\ \A k \in 1..Len(calls') :
                calls'[k].path \in earlier.done => ~calls'[k].ok]_vars

\* C20 amended: a batch run again on the same candidate list acts only on
\* candidates whose source path holds a file: a candidate whose source
\* path holds none causes no file to be created, moved or deleted and is
\* not counted as a success.
C20_RerunActsOnPresent == [][Rerun => ActsOnPresent]_vars

\* C20 witness: the second batch on one candidate list has run after a
\* partial first one; it failed on a candidate that was gone and succeeded
\* on one that was left.
C20_Witness ==
    /\ op \in {"move_dupes", "trash_dupes"}
    /\ earlier.runs = 2
    /\ \E j, k \in 1..Len(calls) :
          /\ ~calls[j].ok
          /\ ~exists(calls[j].pre, calls[j].path)
          /\ calls[j].path \in earlier.done
          /\ calls[k].ok

(***************************************************************************)
(* Properties of the callbacks of one Comparator run (SpecIdx)             *)
(***************************************************************************)
\* C21: the alert callback is called at most once in a Comparator run, the
\* two passes together, and only after a free-space sample read below the
\* floor (the flag is set with it).
C21_AlertAtMostOnce ==
    /\ alerts <= 1
    /\ alerts = 1 => (low_i >= 0 /\ stop_event)

\* C21 witness: a two-folder scan raised its alert in the master pass, after
\* the target pass had samples that read enough space, and has ended.
C21_Witness ==
    /\ pc = "done"
    /\ alerts = 1
    /\ low_label = "Master"
    /\ target_idx # EmptyIndex

\* ---------------------------------------------------------------------
\* C22: within one Comparator run the percent values passed to the
\* progress callback form a non-decreasing sequence.
C22_ProgressMonotone ==
    \A k \in 1..(Len(progress) - 1) : progress[k] <= progress[k + 1]

(***************************************************************************)
(* get_identifier as a function of the file it is given                    *)
(***************************************************************************)
\* two files of any of these names and directories, with any of these
\* contents (sizes 0, 1, 1 and 2)
IdentPaths    == {P_doc, C_a_doc, C_b_only, C_c1_dup, C_c2_dup}
IdentContents == {"", "X", "Y", "XY"}
IdentDisks ==
    UNION {[S -> IdentContents] :
              S \in {T \in SUBSET IdentPaths : Cardinality(T) = 2}}

\* Comparator.get_identifier of sync_cloud_smart.py and sync_cache_smart.py:
\* (filepath, None) when the flag is set, else the key as in sync.py
get_identifier_pair(path, uh, d, unr, stop) ==
    <<path, IF stop THEN None ELSE get_identifier(path, uh, d, unr)>>

InitIdent ==
    /\ disk \in IdentDisks
    /\ unreadable \in {{}} \cup {{p} : p \in DOMAIN disk}
    /\ AppIdle
    /\ cmp \in [master : {NoPath}, target : {DirC}, use_hash : BOOLEAN]
    /\ stop_event = FALSE
    /\ pc = "done"
    /\ label = ""
    /\ all_files = <<>>
    /\ queue = <<>>
    /\ inflight = {}
    /\ done_q = <<>>
    /\ i = 0
    /\ index = EmptyIndex
    /\ ret_idx = EmptyIndex
    /\ target_idx = EmptyIndex
    /\ master_idx = EmptyIndex
    /\ alerts = 0
    /\ progress = <<>>
    /\ finished = <<>>
    /\ low_i = -1
    /\ low_label = ""
    /\ read_after_check = FALSE
    /\ flight_at_stop = {}
    /\ late_reads = <<>>
    /\ io = <<>>
    /\ verdict = NoVerdict
    /\ sampled = ""
    /\ listed = {}

\* one call of get_identifier on a file not yet identified
ident_call ==
    \E path \in DOMAIN disk :
        /\ \A k \in 1..Len(done_q) : done_q[k][1] # path
        /\ done_q' = Append(done_q, get_identifier_pair(path, cmp.use_hash, disk,
                                                        unreadable, stop_event))
        /\ UNCHANGED <<envVars, cmp, stop_event, pc, label, all_files, queue, inflight,
                       i, index, ret_idx, target_idx, master_idx, alerts, progress,
                       finished, obsVars>>

\* self.stop_event.set() between two calls
ident_stop ==
    /\ ~stop_event
    /\ stop_event' = TRUE
    /\ UNCHANGED <<envVars, cmp, pc, label, all_files, queue, inflight, done_q,
                   i, index, ret_idx, target_idx, master_idx, alerts, progress,
                   finished, obsVars>>

NextIdent ==
    \/ ident_call
    \/ ident_stop

SpecIdent == InitIdent /\ [][NextIdent]_vars

\* the pairs of results get_identifier has returned with a key
KeyedPairs ==
    {<<a, b>> \in (1..Len(done_q)) \X (1..Len(done_q)) :
        done_q[a][2] # None /\ done_q[b][2] # None}

\* ---------------------------------------------------------------------
\* C23: in exact mode, two files of identical byte content get equal keys
\* from get_identifier, whatever their names and directories.
C23_ExactSameContentSameKey ==
    \A ab \in KeyedPairs :
        (cmp.use_hash /\ disk[done_q[ab[1]][1]] = disk[done_q[ab[2]][1]])
            => done_q[ab[1]][2] = done_q[ab[2]][2]

\* two files of different names in different directories, of the same
\* content, identified in exact mode
C23_Witness ==
    /\ cmp.use_hash
    /\ Len(done_q) = 2
    /\ done_q[1][2] # None
    /\ done_q[1][2] = done_q[2][2]
    /\ basename(done_q[1][1]) # basename(done_q[2][1])
    /\ dirname(done_q[1][1]) # dirname(done_q[2][1])
    /\ disk[done_q[1][1]] = disk[done_q[2][1]]

\* ---------------------------------------------------------------------
\* C24: two files of differing byte size never get equal keys from
\* get_identifier, in fast mode and in exact mode.
C24_DifferentSizeDifferentKey ==
    \A ab \in KeyedPairs :
        st_size(disk[done_q[ab[1]][1]]) # st_size(disk[done_q[ab[2]][1]])
            => done_q[ab[1]][2] # done_q[ab[2]][2]

\* two files of the same name and of different sizes, identified in fast
\* mode: the name alone would not tell them apart
C24_Witness ==
    /\ ~cmp.use_hash
    /\ Len(done_q) = 2
    /\ done_q[1][2] # None
    /\ done_q[2][2] # None
    /\ basename(done_q[1][1]) = basename(done_q[2][1])
    /\ st_size(disk[done_q[1][1]]) # st_size(disk[done_q[2][1]])
    /\ done_q[1][2] # done_q[2][2]

\* idx holds every file below folder that can be identified once, and no
\* file that cannot
SkipsOnlyFailed(idx, folder) ==
    \A p \in SeqToSet(walk(folder, disk)) :
        Occ(idx, p) = IF p \in unreadable THEN 0 ELSE 1

\* ---------------------------------------------------------------------
\* C25: a file whose identification fails gets no key and is skipped; the
\* failure does not set the cancellation flag and does not end the scan,
\* which completes with every other file indexed.
C25_FailureSkipsFileOnly ==
    /\ stop_event => low_i >= 0
    /\ (pc = "done" /\ low_i < 0) =>
          /\ Len(finished) = 1
          /\ SkipsOnlyFailed(target_idx, cmp.target)
          /\ cmp.master # NoPath => SkipsOnlyFailed(master_idx, cmp.master)

\* a scan of a tree with an unreadable file has completed: the file is in
\* no bucket, the four other files of the two trees are indexed
C25_Witness ==
    /\ pc = "done"
    /\ ~stop_event
    /\ Len(finished) = 1
    /\ unreadable = {C_b_only}
    /\ cmp.target = DirC
    /\ cmp.master = DirP
    /\ Occ(target_idx, C_b_only) = 0
    /\ Occ(target_idx, C_a_doc) = 1
    /\ Occ(target_idx, C_c2_dup) = 1
    /\ Occ(master_idx, P_doc) = 1

(***************************************************************************)
(* is_subpath as a function of the candidate and the protected root        *)
(***************************************************************************)
\* candidates: the files of the scenario, files of the working directory,
\* a file of /P2 (a sibling of /P), folders, the empty string
GuardPaths ==
    DOMAIN ScenarioDisk \cup {<<"/", "home", "note.txt">>, <<"/", "home", "d", "x.bin">>,
                              <<"/", "P2", "x.txt">>, Cwd, DirP, DirC, NoPath}
\* protected roots: absent (the empty string of an entry never filled), a
\* folder of the scenario, the working directory, the file system's root
GuardRoots == {NoPath, DirP, DirC, DirCa, Cwd, <<"/">>}

InitGuard ==
    /\ disk = ScenarioDisk
    /\ unreadable = {}
    /\ AppIdle
    /\ IdxIdle

\* a call of is_subpath of sync_cloud_smart.py and sync_cache_smart.py
is_subpath_call ==
    /\ \E path \in GuardPaths, parent \in GuardRoots :
          verdict' = [fn |-> "smart", path |-> path, parent |-> parent,
                      inside |-> is_subpath(path, parent)]
    /\ UNCHANGED <<envVars, cmpVars, low_i, low_label, read_after_check,
                   flight_at_stop, late_reads, listed, io, sampled>>

\* a call of is_subpath of sync.py
is_subpath_sync_call ==
    /\ \E path \in GuardPaths, parent \in GuardRoots :
          verdict' = [fn |-> "sync", path |-> path, parent |-> parent,
                      inside |-> is_subpath_sync(path, parent)]
    /\ UNCHANGED <<envVars, cmpVars, low_i, low_label, read_after_check,
                   flight_at_stop, late_reads, listed, io, sampled>>

NextGuard ==
    \/ is_subpath_call
    \/ is_subpath_sync_call

SpecGuard == InitGuard /\ [][NextGuard]_vars

C27_GroupKeepsOneCopy ==
    op \in {"delete_selected_internal", "auto_cull_internal"} =>
        \A g \in 1..Len(internal_dupes) :
            \E k \in 1..Len(internal_dupes[g]) : internal_dupes[g][k] \in DOMAIN disk

\* ---------------------------------------------------------------------
\* C28: at most one Comparator thread is running at any time (started and
\* not yet at its completion callback), whatever handlers run in between.
C28_OneScanAtATime ==
    BagCardinality(threads) <= 1

\* rec is the record of the bucket e of the cleanup index: its members are
\* the paths of e, its representative is the first path of the bucket the
\* protected index holds for the key of e, the key of every file of it
RecordOf(rec, e) ==
    /\ HasIdent(master_idx, e.ident)
    /\ rec.target_files = e.paths
    /\ rec.master_file = PathsOf(master_idx, e.ident)[1]
    /\ ident_of(rec.master_file) = e.ident
    /\ \A k \in 1..Len(rec.target_files) : ident_of(rec.target_files[k]) = e.ident

\* ---------------------------------------------------------------------
\* C30: in every cross-duplicate record passed to self.finish, the
\* representative is the first path of the protected index bucket of the
\* members' key, and the members are all the paths of the cleanup index
\* bucket of that key, for every completion order of the workers.
C30_CrossRecordShape ==
    (pc = "done" /\ finished # <<>>) =>
        \A j \in 1..Len(finished[1].cross) :
            \E k \in 1..Len(target_idx) :
                RecordOf(finished[1].cross[j], target_idx[k])

\* a record whose key has two paths in the protected index and two members
C30_Witness ==
    /\ pc = "done"
    /\ finished # <<>>
    /\ \E j \in 1..Len(finished[1].cross) :
          LET rec == finished[1].cross[j]
          IN  /\ Len(rec.target_files) = 2
              /\ \E k \in 1..Len(master_idx) :
                    /\ Len(master_idx[k].paths) = 2
                    /\ master_idx[k].paths[1] = rec.master_file

\* grp is the group of the bucket e of the cleanup index: its members are
\* the paths of e, two or more, each with the key of e, and in a two-folder
\* scan the protected index has no bucket of that key
GroupOf(grp, e) ==
    /\ grp = e.paths
    /\ Len(grp) >= 2
    /\ \A k \in 1..Len(grp) : ident_of(grp[k]) = e.ident
    /\ \A h, k \in 1..Len(grp) : grp[h] = grp[k] => h = k
    /\ cmp.master # NoPath => ~HasIdent(master_idx, e.ident)

\* ---------------------------------------------------------------------
\* C31: every internal duplicate group passed to self.finish has at least
\* two members, the members are the paths of one key of the cleanup index,
\* and in a two-folder scan that key is not in the protected index.
C31_InternalGroupShape ==
    (pc = "done" /\ finished # <<>>) =>
        \A j \in 1..Len(finished[1].internal) :
            \E k \in 1..Len(target_idx) :
                GroupOf(finished[1].internal[j], target_idx[k])

\* a two-folder scan with a non-empty protected index has emitted a group
\* and a cross record
C31_Witness ==
    /\ pc = "done"
    /\ finished # <<>>
    /\ cmp.master # NoPath
    /\ master_idx # EmptyIndex
    /\ finished[1].internal # <<>>
    /\ finished[1].cross # <<>>

(***************************************************************************)
(* The cache App over a tree with a duplicate one folder deeper            *)
(***************************************************************************)
C_c2_sub_dup == <<"/", "C", "c2", "sub", "dup.bin">>

\* /C/c1/dup.bin and the longer /C/c2/sub/dup.bin have the same content
NestedDisk ==
    (P_doc :> "X") @@ (C_c1_dup :> "Z") @@ (C_c2_sub_dup :> "Z")

InitCacheNested ==
    /\ disk = NestedDisk
    /\ unreadable = {}
    /\ AppIdle
    /\ IdxIdle

SpecCacheNested == InitCacheNested /\ [][NextCache]_vars

\* ---------------------------------------------------------------------
\* C32: classification, save_cache, trash_cross and auto_cull_internal
\* leave the keys, the bucket contents and the order of the protected and
\* of the cleanup index as the scan produced them (or drop the indexes as
\* a whole for the rescan they start), and the batch handlers and
\* save_cache leave the records of the classification as they were created.
C32_IndexesReadOnly ==
    [][(ui_calculate \/ save_cache \/ trash_cross \/ auto_cull_internal) =>
          /\ last_master_idx' \in {last_master_idx, EmptyIndex}
          /\ last_target_idx' \in {last_target_idx, EmptyIndex}
          /\ ~ui_calculate =>
                /\ cross_dupes' \in {cross_dupes, <<>>}
                /\ internal_dupes' \in {internal_dupes, <<>>}]_vars

\* root is path or a folder above it, component by component
IsAncestor(root, path) ==
    /\ Len(root) <= Len(path)
    /\ \A k \in 1..Len(root) : path[k] = root[k]

\* ---------------------------------------------------------------------
\* C33: given a protected root, is_subpath returns true exactly when the
\* absolute root is the absolute path or a component-wise ancestor of it;
\* a sibling whose string starts with the root's string is outside.
C33_ComponentwiseContainment ==
    (verdict.fn # "" /\ verdict.parent # NoPath) =>
        (verdict.inside <=>
            IsAncestor(abspath(verdict.parent), abspath(verdict.path)))

\* /P2/x.txt has been tested against the root /P by the guard of the smart
\* programs and found outside
C33_Witness ==
    /\ verdict.fn = "smart"
    /\ verdict.parent = DirP
    /\ verdict.path = <<"/", "P2", "x.txt">>
    /\ ~verdict.inside

(***************************************************************************)
(* The Comparator over files of zero, one and two chunks                   *)
(***************************************************************************)
RECURSIVE Doubled(_, _)
Doubled(s, n) == IF n = 0 THEN s ELSE Doubled(s \o s, n - 1)

\* a content of 65536 + 1 bytes: f.read(65536) returns it in two chunks
TwoChunks == Doubled("A", 16) \o "B"

\* /C/a/doc.txt of two chunks, /C/b/only.txt empty, /P/doc.txt of one byte
ReadDisk ==
    (C_a_doc :> TwoChunks) @@ (C_b_only :> "") @@ (P_doc :> "X")

InitRead ==
    /\ disk = ReadDisk
    /\ unreadable \in {{}, {C_b_only}}
    /\ AppIdle
    /\ cmp \in [master : {NoPath, DirP}, target : {DirC}, use_hash : BOOLEAN]
    /\ stop_event = FALSE
    /\ pc = "run"
    /\ label = ""
    /\ all_files = <<>>
    /\ queue = <<>>
    /\ inflight = {}
    /\ done_q = <<>>
    /\ i = 0
    /\ index = EmptyIndex
    /\ ret_idx = EmptyIndex
    /\ target_idx = EmptyIndex
    /\ master_idx = EmptyIndex
    /\ alerts = 0
    /\ progress = <<>>
    /\ finished = <<>>
    /\ low_i = -1
    /\ low_label = ""
    /\ read_after_check = FALSE
    /\ flight_at_stop = {}
    /\ late_reads = <<>>
    /\ io = [k \in {"Target", "Master"} \X DOMAIN disk |-> ZeroIo]
    /\ verdict = NoVerdict
    /\ sampled = ""
    /\ listed = {}

SpecRead == InitRead /\ [][NextIdx]_vars

\* get_identifier returned a key for path in the pass lab: the result waits
\* in the queue of completed futures, or it is in the index of the pass
Keyed(lab, path) ==
    \/ /\ lab = label
       /\ \/ \E k \in 1..Len(done_q) : done_q[k][1] = path /\ done_q[k][2] # None
          \/ pc \in {"pool", "low", "shutdown"} /\ Occ(index, path) > 0
    \/ lab = "Target" /\ Occ(target_idx, path) > 0
    \/ lab = "Master" /\ Occ(master_idx, path) > 0

\* ---------------------------------------------------------------------
\* C34: in fast mode get_identifier never opens or reads a file; in exact
\* mode a call that returns a key has opened the file once and read all of
\* its bytes once, in chunks of 65536, and no call reads more than that.
C34_ReadsByMode ==
    \A k \in DOMAIN io :
        LET size == st_size(disk[k[2]])
        IN  /\ ~cmp.use_hash => io[k] = ZeroIo
            /\ io[k].opens <= 1
            /\ io[k].bytes <= size
            /\ io[k].chunks <= nchunks(disk[k[2]])
            /\ (cmp.use_hash /\ Keyed(k[1], k[2])) =>
                  io[k] = [opens |-> 1, chunks |-> nchunks(disk[k[2]]),
                           bytes |-> size]

\* an exact scan has completed: the file of two chunks was read in two
\* reads, the empty file was opened and gave no data
C34_Witness ==
    /\ cmp.use_hash
    /\ pc = "done"
    /\ finished # <<>>
    /\ io[<<"Target", C_a_doc>>] = [opens |-> 1, chunks |-> 2, bytes |-> 65537]
    /\ io[<<"Target", C_b_only>>] = [opens |-> 1, chunks |-> 0, bytes |-> 0]
    /\ Occ(target_idx, C_b_only) = 1

\* ---------------------------------------------------------------------
\* C35: a free-space measurement that raises, or whose folder does not
\* exist, counts as 100 GB: after it the flag is not set, no alert has been
\* raised and the pass is not at its low-space return.
C35_FailedMeasurementContinues ==
    sampled \in {"raises", "missing"} =>
        /\ ~stop_event
        /\ alerts = 0
        /\ low_i = -1
        /\ pc # "low"

\* a two-folder scan whose last measurement raised has completed
C35_Witness ==
    /\ sampled = "raises"
    /\ pc = "done"
    /\ cmp.master # NoPath
    /\ Len(finished) = 1
    /\ master_idx # EmptyIndex

\* the same with a measurement on a folder that no longer exists
C35_WitnessMissing ==
    /\ sampled = "missing"
    /\ pc = "done"
    /\ Len(finished) = 1

(***************************************************************************)
(* Progress of a scan                                                      *)
(***************************************************************************)
\* the Comparator thread and its pool workers are scheduled by the
\* operating system: a step that stays possible is eventually taken
SpecIdxFair == SpecIdx /\ WF_vars(NextIdx)

\* ---------------------------------------------------------------------
\* C29 (the scan button): while the button is disabled, a Comparator is
\* running or one of its callbacks is queued, so that the delivery of the
\* scan enables the button again.
C29_DisabledMeansPending ==
    btn_scan = "disabled" => Pending > 0

\* C29 (the delivery): a Comparator run never calls more than one of
\* self.finish and self.alert, and under fair scheduling it ends having
\* called exactly one of them.
C29_ScanDelivers ==
    /\ [](alerts + Len(finished) <= 1)
    /\ <>(pc = "done" /\ alerts + Len(finished) = 1)
=============================================================================
